---------------------------- MODULE Spec2Model ----------------------------
(***************************************************************************)
(* Model of the assignment / submission store of the learning-management   *)
(* application: the tables `assignments` and `submissions` with their      *)
(* column constraints and row-level security policies (supabase/migrations)*)
(* and the grading form that writes to them (GradingInterface.tsx).        *)
(*                                                                         *)
(* A request is one atomic row operation executed by the database for the  *)
(* authenticated caller auth.uid().  PostgreSQL combines the permissive    *)
(* policies of one command with OR; an UPDATE or DELETE that names columns *)
(* in its WHERE clause also needs the SELECT policies; a row that fails a  *)
(* USING clause is skipped silently (zero rows affected, no error), a new  *)
(* row that fails a WITH CHECK clause raises error 42501.                  *)
(***************************************************************************)
EXTENDS Integers, FiniteSets, Sequences, TLC

VARIABLES
    assignments,    \* table assignments: a set of rows
    submissions,    \* table submissions: a set of rows
    last,           \* the request executed last and what the database answered
    gi,             \* the grading form (GradingInterface component state)
    auth,           \* the auth provider (AuthProvider state, refs, calls in flight)
    page            \* the grades page (GradesAssignmentsPage effect and calls in flight)

vars == <<assignments, submissions, last, gi, auth, page>>

-----------------------------------------------------------------------------
(* Bounds of the model *)

\* rows the submissions table can hold in the policy, score, assignment and
\* grading-form specifications
MaxRows == 1

\* rows the submissions table can hold in the uniqueness specification
MaxKeyRows == 2

\* calls the auth provider, and calls the grades page, can have in flight
MaxInFlight == 2

\* students the submission list of one assignment can show
MaxStudents == 2

-----------------------------------------------------------------------------
(* Values *)

\* SQL NULL of a uuid / text column
NULL == "null"

\* SQL NULL of the integer column score: a nullable integer is a set with at
\* most one element
NoScore == {}

Score(n) == {n}

\* SQL NULL of a timestamptz column, and an instant of the model's time line
NoTime == {}

Time(t) == {t}

AssignmentStatuses == {"draft", "published", "archived"}

SubmissionStatuses == {"pending", "submitted", "late", "graded", "returned"}

PreGrading == {"pending", "submitted", "late"}

\* external table profiles (id, role)
profiles ==
    { [id |-> "s1", role |-> "student"],
      [id |-> "s2", role |-> "student"],
      [id |-> "t1", role |-> "teacher"],
      [id |-> "t2", role |-> "teacher"],
      [id |-> "ad", role |-> "admin"] }

\* external table courses (id, instructor_id)
courses ==
    { [id |-> "c1", instructor_id |-> "t1"],
      [id |-> "c2", instructor_id |-> "t2"] }

\* external table enrollments (user_id, course_id, status)
enrollments ==
    { [user_id |-> "s1", course_id |-> "c1", status |-> "active"],
      [user_id |-> "s2", course_id |-> "c1", status |-> "dropped"],
      [user_id |-> "s2", course_id |-> "c2", status |-> "active"] }

Users == { p.id : p \in profiles }

CourseIds == { c.id : c \in courses }

AssignmentIds == {"a1", "a2"}

-----------------------------------------------------------------------------
(* Clauses shared by the policies *)

\* EXISTS (SELECT 1 FROM profiles WHERE profiles.id = auth.uid()
\*         AND profiles.role = 'admin')
IsAdmin(uid) ==
    \E p \in profiles : p.id = uid /\ p.role = "admin"

\* mutant: the clause without the match of the course
InstructsCourse_AnyCourse(uid, course_id) ==
    \E c \in courses : c.instructor_id = uid

\* EXISTS (SELECT 1 FROM courses WHERE courses.id = assignments.course_id
\*         AND courses.instructor_id = auth.uid())
InstructsCourse(uid, course_id) ==
    \E c \in courses : c.id = course_id /\ c.instructor_id = uid

\* EXISTS (SELECT 1 FROM enrollments WHERE enrollments.course_id = course_id
\*         AND enrollments.user_id = auth.uid() AND enrollments.status = 'active')
ActivelyEnrolled(uid, course_id) ==
    \E e \in enrollments :
        e.course_id = course_id /\ e.user_id = uid /\ e.status = "active"

\* mutant: the clause without the join condition of the course
InstructsAssignment_AnyCourse(uid, assignment_id) ==
    \E a \in assignments : \E c \in courses :
        a.id = assignment_id /\ c.instructor_id = uid

\* EXISTS (SELECT 1 FROM assignments a JOIN courses c ON c.id = a.course_id
\*         WHERE a.id = submissions.assignment_id AND c.instructor_id = auth.uid())
InstructsAssignment(uid, assignment_id) ==
    \E a \in assignments : \E c \in courses :
        c.id = a.course_id /\ a.id = assignment_id /\ c.instructor_id = uid

-----------------------------------------------------------------------------
(* Row-level security policies of table assignments *)

\* mutant: the policy without the test of the assignment's status
StudentsCanViewPublishedAssignments_AnyStatus(uid, a) ==
    ActivelyEnrolled(uid, a.course_id)

StudentsCanViewPublishedAssignments(uid, a) ==
    a.status = "published" /\ ActivelyEnrolled(uid, a.course_id)

TeachersCanViewAssignments(uid, a) ==
    InstructsCourse(uid, a.course_id) \/ IsAdmin(uid)

TeachersCanCreateAssignments(uid, a) ==
    InstructsCourse(uid, a.course_id) \/ IsAdmin(uid)

TeachersCanUpdateAssignmentsUsing(uid, a) ==
    InstructsCourse(uid, a.course_id) \/ IsAdmin(uid)

TeachersCanUpdateAssignmentsCheck(uid, a) ==
    InstructsCourse(uid, a.course_id) \/ IsAdmin(uid)

TeachersCanDeleteAssignments(uid, a) ==
    InstructsCourse(uid, a.course_id) \/ IsAdmin(uid)

\* the SELECT policies of assignments, combined
AssignmentVisible(uid, a) ==
    StudentsCanViewPublishedAssignments(uid, a) \/ TeachersCanViewAssignments(uid, a)

-----------------------------------------------------------------------------
(* Row-level security policies of table submissions *)

StudentsCanViewOwnSubmissions(uid, s) ==
    s.user_id = uid

\* mutant: the policy keyed on the caller's role instead of the course
TeachersCanViewSubmissions_ByRole(uid, s) ==
    \E p \in profiles : p.id = uid /\ p.role \in {"teacher", "admin"}

TeachersCanViewSubmissions(uid, s) ==
    InstructsAssignment(uid, s.assignment_id) \/ IsAdmin(uid)

\* mutant: the policy without the test of the assignment's status
StudentsCanCreateOwnSubmissions_AnyStatus(uid, s) ==
    /\ s.user_id = uid
    /\ \E a \in assignments : \E e \in enrollments :
          /\ e.course_id = a.course_id
          /\ a.id = s.assignment_id
          /\ e.user_id = uid
          /\ e.status = "active"

StudentsCanCreateOwnSubmissions(uid, s) ==
    /\ s.user_id = uid
    /\ \E a \in assignments : \E e \in enrollments :
          /\ e.course_id = a.course_id
          /\ a.id = s.assignment_id
          /\ e.user_id = uid
          /\ e.status = "active"
          /\ a.status = "published"

\* mutant: the policy without the test of the row's status
StudentsCanUpdateOwnSubmissionsUsing_AnyStatus(uid, s) ==
    s.user_id = uid

StudentsCanUpdateOwnSubmissionsUsing(uid, s) ==
    s.user_id = uid /\ s.status \in {"pending", "submitted", "late"}

StudentsCanUpdateOwnSubmissionsCheck(uid, s) ==
    s.user_id = uid /\ s.status \in {"pending", "submitted", "late"}

TeachersCanUpdateSubmissionsUsing(uid, s) ==
    InstructsAssignment(uid, s.assignment_id) \/ IsAdmin(uid)

TeachersCanUpdateSubmissionsCheck(uid, s) ==
    InstructsAssignment(uid, s.assignment_id) \/ IsAdmin(uid)

\* mutant: the policy also lets the owner delete
TeachersCanDeleteSubmissions_OrOwner(uid, s) ==
    s.user_id = uid \/ InstructsAssignment(uid, s.assignment_id) \/ IsAdmin(uid)

TeachersCanDeleteSubmissions(uid, s) ==
    InstructsAssignment(uid, s.assignment_id) \/ IsAdmin(uid)

\* the SELECT policies of submissions, combined
SubmissionVisible(uid, s) ==
    StudentsCanViewOwnSubmissions(uid, s) \/ TeachersCanViewSubmissions(uid, s)

-----------------------------------------------------------------------------
(* Column and table constraints *)

assignments_status_check(a) ==
    a.status \in {"draft", "published", "archived"}

assignments_max_score_check(a) ==
    a.max_score > 0

submissions_status_check(s) ==
    s.status \in {"pending", "submitted", "late", "graded", "returned"}

\* mutant: the check without its upper limit
submissions_score_check_NoUpperLimit(s) ==
    s.score = NoScore \/ (\A n \in s.score : n >= 0)

submissions_score_check(s) ==
    s.score = NoScore \/ (\A n \in s.score : n >= 0 /\ n <= 100)

\* mutant: the table without the unique constraint, the primary key alone
submissions_unique_user_assignment_Missing(table) ==
    \A r1 \in table : \A r2 \in table : r1.id = r2.id => r1 = r2

\* UNIQUE (assignment_id, user_id), evaluated on the table the statement
\* would leave behind
submissions_unique_user_assignment(table) ==
    \A r1 \in table : \A r2 \in table :
        (r1.assignment_id = r2.assignment_id /\ r1.user_id = r2.user_id)
            => r1.id = r2.id

\* assignment_id REFERENCES assignments(id), user_id REFERENCES profiles(id)
submissions_foreign_keys(s) ==
    /\ \E a \in assignments : a.id = s.assignment_id
    /\ \E p \in profiles : p.id = s.user_id

\* course_id REFERENCES courses(id)
assignments_foreign_keys(a) ==
    \E c \in courses : c.id = a.course_id

-----------------------------------------------------------------------------
(* Requests against table submissions *)

\* the row an UPDATE ... SET <patch> leaves: the patch's columns replace the
\* old ones
Patched(old, patch) ==
    [f \in DOMAIN old |-> IF f \in DOMAIN patch THEN patch[f] ELSE old[f]]

SubmissionIdsIn(table) == { r.id : r \in table }

\* INSERT policies (WITH CHECK)
SubmissionInsertCheck(uid, s) ==
    StudentsCanCreateOwnSubmissions(uid, s)

\* UPDATE policies (USING), with the SELECT policies the WHERE clause needs
SubmissionUpdateUsing(uid, s) ==
    /\ StudentsCanUpdateOwnSubmissionsUsing(uid, s)
         \/ TeachersCanUpdateSubmissionsUsing(uid, s)
    /\ SubmissionVisible(uid, s)

\* UPDATE policies (WITH CHECK), with the SELECT policies on the new row
SubmissionUpdateCheck(uid, s) ==
    /\ StudentsCanUpdateOwnSubmissionsCheck(uid, s)
         \/ TeachersCanUpdateSubmissionsCheck(uid, s)
    /\ SubmissionVisible(uid, s)

\* DELETE policies (USING), with the SELECT policies the WHERE clause needs
SubmissionDeleteUsing(uid, s) ==
    TeachersCanDeleteSubmissions(uid, s) /\ SubmissionVisible(uid, s)

\* what the database answers to INSERT INTO submissions VALUES (s)
InsertSubmissionResult(uid, s) ==
    IF ~SubmissionInsertCheck(uid, s) THEN "rls_violation"
    ELSE IF ~(submissions_status_check(s) /\ submissions_score_check(s))
         THEN "check_violation"
    ELSE IF ~submissions_unique_user_assignment(submissions \cup {s})
         THEN "unique_violation"
    ELSE IF ~submissions_foreign_keys(s) THEN "fk_violation"
    ELSE "ok"

\* the rows of `table` UPDATE submissions ... WHERE id = id may touch for this
\* caller
UpdateTargetsIn(table, uid, id) ==
    { r \in table : r.id = id /\ SubmissionUpdateUsing(uid, r) }

\* what the database answers to UPDATE submissions SET patch WHERE id = id
\* when the table holds the rows of `table`
UpdateSubmissionResultIn(table, uid, id, patch) ==
    IF UpdateTargetsIn(table, uid, id) = {} THEN "no_rows"
    ELSE LET old == CHOOSE r \in UpdateTargetsIn(table, uid, id) : TRUE
             new == Patched(old, patch)
         IN  IF ~SubmissionUpdateCheck(uid, new) THEN "rls_violation"
             ELSE IF ~(submissions_status_check(new) /\ submissions_score_check(new))
                  THEN "check_violation"
             ELSE IF ~submissions_unique_user_assignment((table \ {old}) \cup {new})
                  THEN "unique_violation"
             ELSE IF ~submissions_foreign_keys(new) THEN "fk_violation"
             ELSE "ok"

\* mutant: the UPDATE without its WHERE clause
UpdatedSubmissionsIn_EveryRow(table, uid, id, patch) ==
    IF UpdateSubmissionResultIn(table, uid, id, patch) = "ok"
    THEN { Patched(r, patch) : r \in table }
    ELSE table

\* the rows the table holds after the UPDATE
UpdatedSubmissionsIn(table, uid, id, patch) ==
    IF UpdateSubmissionResultIn(table, uid, id, patch) = "ok"
    THEN { IF r.id = id THEN Patched(r, patch) ELSE r : r \in table }
    ELSE table

\* the rows UPDATE submissions ... WHERE id = id may touch for this caller
UpdateTargets(uid, id) ==
    UpdateTargetsIn(submissions, uid, id)

\* what the database answers to UPDATE submissions SET patch WHERE id = id
UpdateSubmissionResult(uid, id, patch) ==
    UpdateSubmissionResultIn(submissions, uid, id, patch)

\* the table after the UPDATE
UpdatedSubmissions(uid, id, patch) ==
    UpdatedSubmissionsIn(submissions, uid, id, patch)

DeleteTargets(uid, id) ==
    { r \in submissions : r.id = id /\ SubmissionDeleteUsing(uid, r) }

\* the request record kept in `last`
Request(op, uid, res, id, arg, seen) ==
    [op |-> op, caller |-> uid, res |-> res, id |-> id, arg |-> arg, seen |-> seen]

InsertSubmission(uid, s) ==
    /\ s.id \notin SubmissionIdsIn(submissions)
    /\ submissions' = IF InsertSubmissionResult(uid, s) = "ok"
                      THEN submissions \cup {s}
                      ELSE submissions
    /\ last' = Request("insert_submission", uid, InsertSubmissionResult(uid, s),
                       s.id, s, {})
    /\ UNCHANGED <<assignments, gi, auth, page>>

UpdateSubmission(uid, id, patch) ==
    /\ submissions' = UpdatedSubmissions(uid, id, patch)
    /\ last' = Request("update_submission", uid, UpdateSubmissionResult(uid, id, patch),
                       id, patch, {})
    /\ UNCHANGED <<assignments, gi, auth, page>>

DeleteSubmission(uid, id) ==
    /\ submissions' = submissions \ DeleteTargets(uid, id)
    /\ last' = Request("delete_submission", uid,
                       IF DeleteTargets(uid, id) = {} THEN "no_rows" ELSE "ok",
                       id, <<>>, {})
    /\ UNCHANGED <<assignments, gi, auth, page>>

SelectSubmissions(uid) ==
    /\ last' = Request("select_submissions", uid, "ok", 0, <<>>,
                       { r.id : r \in { x \in submissions : SubmissionVisible(uid, x) } })
    /\ UNCHANGED <<assignments, submissions, gi, auth, page>>

\* SELECT * FROM submissions: the policies choose the rows, every column of
\* a chosen row is returned
SelectSubmissionRows(uid) ==
    /\ last' = Request("select_submission_rows", uid, "ok", 0, <<>>,
                       { x \in submissions : SubmissionVisible(uid, x) })
    /\ UNCHANGED <<assignments, submissions, gi, auth, page>>

-----------------------------------------------------------------------------
(* Requests against table assignments *)

AssignmentInsertCheck(uid, a) ==
    TeachersCanCreateAssignments(uid, a)

AssignmentUpdateUsing(uid, a) ==
    TeachersCanUpdateAssignmentsUsing(uid, a) /\ AssignmentVisible(uid, a)

AssignmentUpdateCheck(uid, a) ==
    TeachersCanUpdateAssignmentsCheck(uid, a) /\ AssignmentVisible(uid, a)

AssignmentDeleteUsing(uid, a) ==
    TeachersCanDeleteAssignments(uid, a) /\ AssignmentVisible(uid, a)

InsertAssignmentResult(uid, a) ==
    IF ~AssignmentInsertCheck(uid, a) THEN "rls_violation"
    ELSE IF ~(assignments_status_check(a) /\ assignments_max_score_check(a))
         THEN "check_violation"
    ELSE IF ~assignments_foreign_keys(a) THEN "fk_violation"
    ELSE "ok"

AssignmentUpdateTargets(uid, id) ==
    { a \in assignments : a.id = id /\ AssignmentUpdateUsing(uid, a) }

UpdateAssignmentResult(uid, id, patch) ==
    IF AssignmentUpdateTargets(uid, id) = {} THEN "no_rows"
    ELSE LET old == CHOOSE a \in AssignmentUpdateTargets(uid, id) : TRUE
             new == Patched(old, patch)
         IN  IF ~AssignmentUpdateCheck(uid, new) THEN "rls_violation"
             ELSE IF ~(assignments_status_check(new) /\ assignments_max_score_check(new))
                  THEN "check_violation"
             ELSE IF ~assignments_foreign_keys(new) THEN "fk_violation"
             ELSE "ok"

AssignmentDeleteTargets(uid, id) ==
    { a \in assignments : a.id = id /\ AssignmentDeleteUsing(uid, a) }

InsertAssignment(uid, a) ==
    /\ a.id \notin { x.id : x \in assignments }
    /\ assignments' = IF InsertAssignmentResult(uid, a) = "ok"
                      THEN assignments \cup {a}
                      ELSE assignments
    /\ last' = Request("insert_assignment", uid, InsertAssignmentResult(uid, a),
                       a.id, a, {})
    /\ UNCHANGED <<submissions, gi, auth, page>>

UpdateAssignment(uid, id, patch) ==
    /\ assignments' = IF UpdateAssignmentResult(uid, id, patch) = "ok"
                      THEN { IF a.id = id THEN Patched(a, patch) ELSE a : a \in assignments }
                      ELSE assignments
    /\ last' = Request("update_assignment", uid, UpdateAssignmentResult(uid, id, patch),
                       id, patch, {})
    /\ UNCHANGED <<submissions, gi, auth, page>>

\* mutant: the foreign key without ON DELETE CASCADE and without its check
DeleteAssignment_NoCascade(uid, id) ==
    /\ assignments' = assignments \ AssignmentDeleteTargets(uid, id)
    /\ last' = Request("delete_assignment", uid,
                       IF AssignmentDeleteTargets(uid, id) = {} THEN "no_rows" ELSE "ok",
                       id, <<>>, {})
    /\ UNCHANGED <<submissions, gi, auth, page>>

\* ON DELETE CASCADE removes the assignment's submissions with it
DeleteAssignment(uid, id) ==
    /\ assignments' = assignments \ AssignmentDeleteTargets(uid, id)
    /\ submissions' = { r \in submissions :
                          r.assignment_id \notin
                              { a.id : a \in AssignmentDeleteTargets(uid, id) } }
    /\ last' = Request("delete_assignment", uid,
                       IF AssignmentDeleteTargets(uid, id) = {} THEN "no_rows" ELSE "ok",
                       id, <<>>, {})
    /\ UNCHANGED <<gi, auth, page>>

SelectAssignments(uid) ==
    /\ last' = Request("select_assignments", uid, "ok", 0, <<>>,
                       { a.id : a \in { x \in assignments : AssignmentVisible(uid, x) } })
    /\ UNCHANGED <<assignments, submissions, gi, auth, page>>

-----------------------------------------------------------------------------
(* Initial values *)

NoRequest == Request("none", NULL, "ok", 0, <<>>, {})

\* useForm defaultValues of the grading form; graded_at is the instant
\* onSubmit reads from the clock
GiDefaultValues ==
    [score |-> 0, feedback |-> "", status |-> "graded", graded_at |-> NoTime]

\* the state of the grading form: the props and useAuth() user it was rendered
\* with, its useState cells, the form values and the toast it showed last
Gi(phase, user, assignment, studentId, student, submission, form, toast) ==
    [phase |-> phase, user |-> user, assignment |-> assignment, students |-> {},
     studentId |-> studentId, student |-> student, submission |-> submission,
     form |-> form, toast |-> toast]

\* the grading form before it is mounted (selectedSubmission = null)
GiUnmounted ==
    Gi("unmounted", NULL, NULL, NULL, FALSE, {}, GiDefaultValues, "none")

\* the users that sign in: an instructor and a student
AuthUsers == {"t1", "s1"}

\* the auth provider when it mounts: useState and useRef initial values, no
\* call in flight, getSession() not yet answered; clientSession is the
\* session the supabase client holds in storage
AuthInitial(clientSession) ==
    [user |-> NULL, profile |-> NULL, session |-> NULL, loading |-> TRUE,
     fetchingProfile |-> FALSE, redirecting |-> FALSE,
     fetches |-> [k \in AuthUsers \X BOOLEAN |-> 0],
     getSession |-> TRUE, subscribed |-> TRUE,
     signingOut |-> FALSE, reloading |-> FALSE,
     clientSession |-> clientSession, event |-> "none"]

\* the grades page before it is rendered: its effect has not run, no save is
\* in flight, no query was issued
PageInitial ==
    [deps |-> <<>>, saves |-> 0, query |-> "none"]

\* max_score integer NOT NULL DEFAULT 100
DefaultMaxScore == 100

\* due_date timestamptz NOT NULL: the instant every assignment of the model
\* is due
DueDate == 2

Assignment(id, course_id, status) ==
    [id |-> id, course_id |-> course_id, status |-> status,
     max_score |-> DefaultMaxScore, due_date |-> DueDate]

\* a row of submissions whose submitted_at, feedback and graded_at are NULL
Submission(id, assignment_id, user_id, status, score, graded_by) ==
    [id |-> id, assignment_id |-> assignment_id, user_id |-> user_id,
     status |-> status, score |-> score, graded_by |-> graded_by,
     submitted_at |-> NoTime, feedback |-> NULL, graded_at |-> NoTime]

\* gen_random_uuid(): an id no row of the table holds
FreshSubmissionIds(cap) ==
    LET free == (1..cap) \ SubmissionIdsIn(submissions)
    IN  { i \in free : \A j \in free : i <= j }

-----------------------------------------------------------------------------
(* Specification of the submissions policies: every caller tries every      *)
(* request on the rows of assignments a1 (course c1) and a2 (course c2).   *)

InitPolicy ==
    /\ assignments \in
          { { Assignment("a1", "c1", st), Assignment("a2", "c2", "published") } :
              st \in {"published", "draft"} }
    /\ submissions = {}
    /\ last = NoRequest
    /\ gi = GiUnmounted
    /\ auth = AuthInitial(NULL)
    /\ page = PageInitial

PolicyInsertRows(uid, id) ==
    { Submission(id, a, u, st, NoScore, NULL) :
        a \in AssignmentIds, u \in {uid, "s1"}, st \in {"pending", "graded"} }

NextPolicy ==
    \E uid \in Users :
        \/ \E id \in FreshSubmissionIds(MaxRows) :
              \E s \in PolicyInsertRows(uid, id) : InsertSubmission(uid, s)
        \/ \E id \in 1..MaxRows :
              \E patch \in { [status |-> st] : st \in SubmissionStatuses }
                              \cup { [user_id |-> "s2"], [assignment_id |-> "a2"] } :
                  UpdateSubmission(uid, id, patch)
        \/ \E id \in 1..MaxRows : DeleteSubmission(uid, id)
        \/ SelectSubmissions(uid)

SpecPolicy == InitPolicy /\ [][NextPolicy]_vars

-----------------------------------------------------------------------------
(* Specification of the key constraint: students and the admin create rows  *)
(* and the admin moves them between students and assignments.              *)

PublishedAssignments ==
    { Assignment("a1", "c1", "published"), Assignment("a2", "c2", "published") }

InitUnique ==
    /\ assignments = PublishedAssignments
    /\ submissions = {}
    /\ last = NoRequest
    /\ gi = GiUnmounted
    /\ auth = AuthInitial(NULL)
    /\ page = PageInitial

UniqueInsertRows(uid, id) ==
    { Submission(id, a, uid, st, NoScore, NULL) :
        a \in AssignmentIds, st \in {"pending", "submitted"} }

NextUnique ==
    \E uid \in {"s1", "s2", "ad"} :
        \/ \E id \in FreshSubmissionIds(MaxKeyRows) :
              \E s \in UniqueInsertRows(uid, id) : InsertSubmission(uid, s)
        \/ \E id \in 1..MaxKeyRows :
              \E patch \in { [user_id |-> u] : u \in {"s1", "s2"} }
                              \cup { [assignment_id |-> a] : a \in AssignmentIds } :
                  UpdateSubmission(uid, id, patch)
        \/ \E id \in 1..MaxKeyRows : DeleteSubmission(uid, id)

SpecUnique == InitUnique /\ [][NextUnique]_vars

-----------------------------------------------------------------------------
(* Specification of the score constraint: every caller tries to store      *)
(* scores inside and outside 0..100.                                       *)

InitScore ==
    /\ assignments = PublishedAssignments
    /\ submissions = {}
    /\ last = NoRequest
    /\ gi = GiUnmounted
    /\ auth = AuthInitial(NULL)
    /\ page = PageInitial

ScoreInputs ==
    { NoScore, Score(-1), Score(0), Score(85), Score(100), Score(101), Score(150) }

ScoreInsertRows(uid, id) ==
    { Submission(id, a, uid, "submitted", sc, NULL) :
        a \in AssignmentIds, sc \in ScoreInputs }

ScorePatches ==
    { [score |-> sc] : sc \in ScoreInputs }
        \cup { [status |-> "graded", score |-> sc] : sc \in ScoreInputs }

NextScore ==
    \E uid \in Users :
        \/ \E id \in FreshSubmissionIds(MaxRows) :
              \E s \in ScoreInsertRows(uid, id) : InsertSubmission(uid, s)
        \/ \E id \in 1..MaxRows : \E patch \in ScorePatches :
              UpdateSubmission(uid, id, patch)
        \/ \E id \in 1..MaxRows : DeleteSubmission(uid, id)

SpecScore == InitScore /\ [][NextScore]_vars

-----------------------------------------------------------------------------
(* Specification of the assignments policies: every caller tries every     *)
(* request on the assignments table; enrolled students submit.             *)

InitAssign ==
    /\ assignments = {}
    /\ submissions = {}
    /\ last = NoRequest
    /\ gi = GiUnmounted
    /\ auth = AuthInitial(NULL)
    /\ page = PageInitial

AssignInsertRows ==
    { Assignment(id, c, st) :
        id \in AssignmentIds, c \in CourseIds, st \in AssignmentStatuses }

AssignPatches ==
    { [status |-> st] : st \in AssignmentStatuses }
        \cup { [course_id |-> c] : c \in CourseIds }

StudentSubmitRows(uid, id) ==
    { Submission(id, a, uid, "submitted", NoScore, NULL) : a \in AssignmentIds }

NextAssign ==
    \E uid \in Users :
        \/ \E a \in AssignInsertRows : InsertAssignment(uid, a)
        \/ \E id \in AssignmentIds : \E patch \in AssignPatches :
              UpdateAssignment(uid, id, patch)
        \/ \E id \in AssignmentIds : DeleteAssignment(uid, id)
        \/ SelectAssignments(uid)
        \/ \E id \in FreshSubmissionIds(MaxRows) :
              \E s \in StudentSubmitRows(uid, id) : InsertSubmission(uid, s)

SpecAssign == InitAssign /\ [][NextAssign]_vars

-----------------------------------------------------------------------------
(* The views assignment_stats and student_assignment_progress. A view runs  *)
(* with the rights of its owner: its rows do not depend on the caller.      *)

\* mutant: the join without its ON condition
SubmissionsOfAssignment_AnyAssignment(assignment_id) ==
    submissions

\* the submissions rows of an assignment (LEFT JOIN submissions s ON
\* s.assignment_id = a.id)
SubmissionsOfAssignment(assignment_id) ==
    { r \in submissions : r.assignment_id = assignment_id }

\* mutant: the comparison with >= in place of >
SubmittedAfter_OrEqual(submitted_at, due_date) ==
    \E t \in submitted_at : t >= due_date

\* s.submitted_at > a.due_date; a NULL submitted_at compares to NULL
SubmittedAfter(submitted_at, due_date) ==
    \E t \in submitted_at : t > due_date

\* rows of the view assignment_stats: one group per assignment and course
assignment_stats ==
    { [id |-> ac[1].id, status |-> ac[1].status, max_score |-> ac[1].max_score,
       instructor_id |-> ac[2].instructor_id,
       total_submissions |->
           Cardinality(SubmissionsOfAssignment(ac[1].id)),
       graded_submissions |->
           Cardinality({ r \in SubmissionsOfAssignment(ac[1].id) :
                           r.status \in {"graded", "returned"} }),
       pending_submissions |->
           Cardinality({ r \in SubmissionsOfAssignment(ac[1].id) :
                           r.status \in {"submitted", "late"} }),
       late_submissions |->
           Cardinality({ r \in SubmissionsOfAssignment(ac[1].id) :
                           SubmittedAfter(r.submitted_at, ac[1].due_date) })] :
        ac \in { x \in assignments \X courses : x[2].id = x[1].course_id } }

\* the columns of s when LEFT JOIN submissions finds no row
NoSubmission ==
    Submission(0, NULL, NULL, NULL, NoScore, NULL)

\* LEFT JOIN submissions s ON s.user_id = p.id AND s.assignment_id = a.id
JoinedSubmissions(user_id, assignment_id) ==
    LET found == { r \in submissions :
                     r.user_id = user_id /\ r.assignment_id = assignment_id }
    IN  IF found = {} THEN {NoSubmission} ELSE found

\* the CASE of progress_status
progress_status(submitted_at, due_date, score) ==
    IF submitted_at = NoTime THEN "not_submitted"
    ELSE IF SubmittedAfter(submitted_at, due_date) THEN "late"
    ELSE IF score # NoScore THEN "graded"
    ELSE "submitted"

\* mutant: the joins of the view without the test of the enrollment status
ProgressJoin_AnyEnrollment ==
    { x \in profiles \X assignments \X enrollments \X (submissions \cup {NoSubmission}) :
        /\ x[3].user_id = x[1].id /\ x[3].course_id = x[2].course_id
        /\ x[4] \in JoinedSubmissions(x[1].id, x[2].id)
        /\ x[1].role = "student"
        /\ x[2].status = "published" }

\* FROM profiles p CROSS JOIN assignments a LEFT JOIN enrollments e LEFT JOIN
\* submissions s WHERE ...: the joined rows <<p, a, e, s>> the view keeps (a
\* pair without an enrollment has e NULL and fails e.status = 'active')
ProgressJoin ==
    { x \in profiles \X assignments \X enrollments \X (submissions \cup {NoSubmission}) :
        /\ x[3].user_id = x[1].id /\ x[3].course_id = x[2].course_id
        /\ x[4] \in JoinedSubmissions(x[1].id, x[2].id)
        /\ x[1].role = "student"
        /\ x[3].status = "active"
        /\ x[2].status = "published" }

\* rows of the view student_assignment_progress; `joined` names the joined
\* rows a view row comes from, so that two equal rows stay two rows
student_assignment_progress ==
    { [joined |-> <<x[3], x[4].id>>,
       student_id |-> x[1].id, assignment_id |-> x[2].id,
       submission_status |-> x[4].status, score |-> x[4].score,
       submitted_at |-> x[4].submitted_at,
       progress_status |->
           progress_status(x[4].submitted_at, x[2].due_date, x[4].score)] :
        x \in ProgressJoin }

\* SELECT * FROM assignment_stats
SelectAssignmentStats(uid) ==
    /\ last' = Request("select_assignment_stats", uid, "ok", 0, <<>>, assignment_stats)
    /\ UNCHANGED <<assignments, submissions, gi, auth, page>>

\* SELECT * FROM student_assignment_progress
SelectStudentProgress(uid) ==
    /\ last' = Request("select_student_progress", uid, "ok", 0, <<>>,
                       student_assignment_progress)
    /\ UNCHANGED <<assignments, submissions, gi, auth, page>>

-----------------------------------------------------------------------------
(* Specification of the views: students submit before, at and after the due *)
(* date, the admin grades, returns and moves rows, the instructor publishes *)
(* and archives a1, and the views are read.                                 *)

InitProgress ==
    /\ assignments = PublishedAssignments
    /\ submissions = {}
    /\ last = NoRequest
    /\ gi = GiUnmounted
    /\ auth = AuthInitial(NULL)
    /\ page = PageInitial

\* status and submitted_at of the rows students insert (the due date is 2)
ProgressSubmitted ==
    { <<"pending", NoTime>>, <<"submitted", Time(DueDate)>>,
      <<"late", Time(DueDate + 1)>> }

ProgressInsertRows(uid, id) ==
    { [Submission(id, a, uid, w[1], NoScore, NULL) EXCEPT !.submitted_at = w[2]] :
        a \in AssignmentIds, w \in ProgressSubmitted }

\* a grade saved, a grade saved and returned, and the move of a row to
\* assignment a1
ProgressPatches(uid) ==
    { [score |-> Score(85), status |-> st, graded_by |-> uid,
       graded_at |-> Time(DueDate + 1)] : st \in {"graded", "returned"} }
        \cup { [assignment_id |-> "a1"] }

NextProgress ==
    \/ \E uid \in {"s1", "s2"} : \E id \in FreshSubmissionIds(MaxKeyRows) :
          \E s \in ProgressInsertRows(uid, id) : InsertSubmission(uid, s)
    \/ \E uid \in {"ad"} : \E id \in 1..MaxKeyRows :
          \E patch \in ProgressPatches(uid) : UpdateSubmission(uid, id, patch)
    \/ \E patch \in { [status |-> st] : st \in {"published", "archived"} } :
          UpdateAssignment("t1", "a1", patch)
    \/ \E uid \in {"t1"} : SelectAssignmentStats(uid)
    \/ \E uid \in {"t1"} : SelectStudentProgress(uid)

SpecProgress == InitProgress /\ [][NextProgress]_vars

-----------------------------------------------------------------------------
(* Specification of the foreign key: students submit to a1 and a2, the      *)
(* admin moves rows between assignments, and the instructors and the admin  *)
(* delete and re-create assignments.                                        *)

InitCascade ==
    /\ assignments = PublishedAssignments
    /\ submissions = {}
    /\ last = NoRequest
    /\ gi = GiUnmounted
    /\ auth = AuthInitial(NULL)
    /\ page = PageInitial

NextCascade ==
    \/ \E uid \in {"s1", "s2"} : \E id \in FreshSubmissionIds(MaxKeyRows) :
          \E s \in StudentSubmitRows(uid, id) : InsertSubmission(uid, s)
    \/ \E uid \in {"ad"} : \E id \in 1..MaxKeyRows :
          \E patch \in { [assignment_id |-> a] : a \in AssignmentIds } :
              UpdateSubmission(uid, id, patch)
    \/ \E uid \in {"t1", "t2", "ad", "s1"} : \E id \in AssignmentIds : DeleteAssignment(uid, id)
    \/ \E uid \in {"t1", "t2", "ad", "s1"} : \E a \in PublishedAssignments :
          InsertAssignment(uid, a)

SpecCascade == InitCascade /\ [][NextCascade]_vars

-----------------------------------------------------------------------------
(* The grades page: the list of the students of an assignment               *)
(* (StudentSubmissionList) and the grading form (GradingInterface)          *)

\* AppContent renders the grades page for a teacher or an admin only
MayOpenGradesPage(uid) ==
    \E p \in profiles : p.id = uid /\ p.role \in {"teacher", "admin"}

\* loadAssignments: assignment_stats, filtered by instructor_id for a teacher
loadAssignments(uid) ==
    { r.id : r \in { x \in assignment_stats :
                       IsAdmin(uid) \/ x.instructor_id = uid } }

\* loadStudentSubmissions: the rows of student_assignment_progress of an
\* assignment, as the list keeps them
loadStudentSubmissions(assignment_id) ==
    { [student_id |-> r.student_id, submission_status |-> r.submission_status] :
        r \in { x \in student_assignment_progress : x.assignment_id = assignment_id } }

\* the user picks an assignment of the page's list (its id and max_score are
\* changed by no request of the grades page): StudentSubmissionList mounts
GiSelectAssignment(uid, assignment_id) ==
    /\ gi.phase = "unmounted"
    /\ MayOpenGradesPage(uid)
    /\ assignment_id \in loadAssignments(uid)
    /\ gi' = [GiUnmounted EXCEPT !.phase = "load_list", !.user = uid,
                                 !.assignment = assignment_id]
    /\ UNCHANGED <<assignments, submissions, last, auth, page>>

\* loadStudentSubmissions answers: the list shows the students
GiLoadList ==
    /\ gi.phase = "load_list"
    /\ gi' = [gi EXCEPT !.phase = "list",
                        !.students = loadStudentSubmissions(gi.assignment)]
    /\ UNCHANGED <<assignments, submissions, last, auth, page>>

\* "Back to Assignments"
GiListBack ==
    /\ gi.phase = "list"
    /\ gi' = GiUnmounted
    /\ UNCHANGED <<assignments, submissions, last, auth, page>>

\* "Grade" (shown for submitted and late) or "Edit Grade" (shown for graded)
\* of a student of the list: the page renders GradingInterface, whose effect
\* starts loadSubmissionData
GiOpen(studentId) ==
    /\ gi.phase = "list"
    /\ \E r \in gi.students :
          /\ r.student_id = studentId
          /\ r.submission_status \in {"submitted", "late", "graded"}
    /\ gi' = [gi EXCEPT !.phase = "load_student", !.studentId = studentId,
                        !.student = FALSE, !.submission = {},
                        !.form = GiDefaultValues, !.toast = "none"]
    /\ UNCHANGED <<assignments, submissions, last, auth, page>>

\* loadSubmissionData, first query: student_assignment_progress .single()
GiLoadStudent ==
    /\ gi.phase = "load_student"
    /\ LET rows == { r \in student_assignment_progress :
                       r.assignment_id = gi.assignment /\ r.student_id = gi.studentId }
       IN  gi' = IF Cardinality(rows) # 1
                 THEN [gi EXCEPT !.phase = "ready",
                                 !.toast = "Failed to load student information"]
                 ELSE [gi EXCEPT !.phase = "load_submission", !.student = TRUE]
    /\ UNCHANGED <<assignments, submissions, last, auth, page>>

\* loadSubmissionData, second query: submissions .single() under the caller's
\* SELECT policies; no row (PGRST116) leaves submission null
GiLoadSubmission ==
    /\ gi.phase = "load_submission"
    /\ LET rows == { r \in submissions :
                       /\ r.assignment_id = gi.assignment
                       /\ r.user_id = gi.studentId
                       /\ SubmissionVisible(gi.user, r) }
       IN  gi' = IF Cardinality(rows) > 1
                 THEN [gi EXCEPT !.phase = "ready",
                                 !.toast = "Failed to load submission data"]
                 ELSE [gi EXCEPT !.phase = "ready",
                                 !.submission = { r.id : r \in rows }]
    /\ UNCHANGED <<assignments, submissions, last, auth, page>>

\* max_score of the assignment the form was rendered with
GiMaxScore ==
    LET a == CHOOSE x \in assignments : x.id = gi.assignment IN a.max_score

\* the instants the clock shows when a grade is saved
GradeTimes == {3}

\* the feedback typed into the form
GradeFeedbacks == {"well done"}

\* "Save Grade" / "Save & Return to Student": the score passes the form's
\* min / max rules, then onSubmit starts, sets submitting and reads the clock
GiSubmit(score, status) ==
    /\ gi.phase = "ready"
    /\ \E x \in assignments : x.id = gi.assignment
    /\ 0 <= score /\ score <= GiMaxScore
    /\ \E fb \in GradeFeedbacks : \E now \in GradeTimes :
          gi' = [gi EXCEPT !.phase = "saving",
                           !.form = [score |-> score, feedback |-> fb,
                                     status |-> status, graded_at |-> Time(now)]]
    /\ UNCHANGED <<assignments, submissions, last, auth, page>>

\* mutant: submissionData without graded_by
GiSubmissionData_NoGrader ==
    [score |-> Score(gi.form.score), feedback |-> gi.form.feedback,
     status |-> gi.form.status, graded_at |-> gi.form.graded_at]

\* submissionData of onSubmit
GiSubmissionData ==
    [score |-> Score(gi.form.score), feedback |-> gi.form.feedback,
     status |-> gi.form.status, graded_by |-> gi.user,
     graded_at |-> gi.form.graded_at]

\* newSubmissionData of onSubmit
GiNewSubmissionData(id) ==
    Patched(Submission(id, gi.assignment, gi.studentId, gi.form.status,
                       NoScore, NULL),
            GiSubmissionData)

\* mutant: the end of onSubmit without the test of the error
GiAfterSave_AlwaysSaved(res) ==
    [GiUnmounted EXCEPT !.phase = "load_list", !.user = gi.user,
                        !.assignment = gi.assignment,
                        !.toast = "Grade saved"]

\* the end of onSubmit: an error keeps the form with an error toast, no error
\* shows the success toast and onGradeSubmitted() returns to the list, which
\* mounts and loads again
GiAfterSave(res) ==
    IF res \in {"ok", "no_rows"}
    THEN [GiUnmounted EXCEPT !.phase = "load_list", !.user = gi.user,
                             !.assignment = gi.assignment,
                             !.toast = "Grade saved"]
    ELSE [gi EXCEPT !.phase = "ready", !.toast = "Failed to save grade"]

\* onSubmit with a loaded submission: update(submissionData).eq('id', ...)
GiSaveUpdate ==
    /\ gi.phase = "saving"
    /\ gi.submission # {}
    /\ LET id  == CHOOSE i \in gi.submission : TRUE
           res == UpdateSubmissionResult(gi.user, id, GiSubmissionData)
       IN  /\ submissions' = UpdatedSubmissions(gi.user, id, GiSubmissionData)
           /\ last' = Request("update_submission", gi.user, res, id,
                              GiSubmissionData, {})
           /\ gi' = GiAfterSave(res)
    /\ UNCHANGED <<assignments, auth, page>>

\* onSubmit without a loaded submission: insert(newSubmissionData)
GiSaveInsert ==
    /\ gi.phase = "saving"
    /\ gi.submission = {}
    /\ \E id \in FreshSubmissionIds(MaxRows + 1) :
          LET s   == GiNewSubmissionData(id)
              res == InsertSubmissionResult(gi.user, s)
          IN  /\ submissions' = IF res = "ok" THEN submissions \cup {s}
                                ELSE submissions
              /\ last' = Request("insert_submission", gi.user, res, id, s, {})
              /\ gi' = GiAfterSave(res)
    /\ UNCHANGED <<assignments, auth, page>>

\* "Back to Submissions": onBack returns to the list, which mounts and loads
\* again
GiBack ==
    /\ gi.phase = "ready"
    /\ gi' = [GiUnmounted EXCEPT !.phase = "load_list", !.user = gi.user,
                                 !.assignment = gi.assignment]
    /\ UNCHANGED <<assignments, submissions, last, auth, page>>

-----------------------------------------------------------------------------
(* Specification of the grades page: students submit and read their rows,   *)
(* the instructors and the admin grade through the form and delete rows,    *)
(* assignment a1 changes status meanwhile. Assignment a2 has a max_score    *)
(* above 100.                                                               *)

\* a max_score the assignment dialog accepts (1..1000) above the 100 of the
\* score check
HighMaxScore == 150

InitGrade ==
    /\ assignments =
          { Assignment("a1", "c1", "published"),
            [Assignment("a2", "c2", "published") EXCEPT !.max_score = HighMaxScore] }
    /\ submissions = {}
    /\ last = NoRequest
    /\ gi = GiUnmounted
    /\ auth = AuthInitial(NULL)
    /\ page = PageInitial

\* scores typed into the form
GradeScores == {0, 85, 101}

GradeStatuses == {"graded", "returned"}

NextGrade ==
    \/ \E uid \in Users : \E a \in AssignmentIds : GiSelectAssignment(uid, a)
    \/ GiLoadList
    \/ GiListBack
    \/ \E sid \in Users : GiOpen(sid)
    \/ GiLoadStudent
    \/ GiLoadSubmission
    \/ \E score \in GradeScores : \E st \in GradeStatuses : GiSubmit(score, st)
    \/ GiSaveUpdate
    \/ GiSaveInsert
    \/ GiBack
    \/ \E uid \in {"s1", "s2"} : \E id \in FreshSubmissionIds(MaxRows) :
          \E s \in StudentSubmitRows(uid, id) : InsertSubmission(uid, s)
    \/ \E uid \in {"s1", "s2"} : SelectSubmissionRows(uid)
    \/ \E uid \in {"ad"} : \E id \in 1..MaxRows : DeleteSubmission(uid, id)
    \/ \E uid \in {"t1"} : \E patch \in { [status |-> st] : st \in {"published", "archived"} } :
          UpdateAssignment(uid, "a1", patch)

SpecGrade == InitGrade /\ [][NextGrade]_vars

-----------------------------------------------------------------------------
(* Specification of the grades page beside an administrator: students       *)
(* submit, the instructor of c1 and the admin grade through the form, and   *)
(* the admin moves rows between assignments meanwhile.                      *)

NextMove ==
    \/ \E uid \in {"t1", "ad"} : \E a \in AssignmentIds : GiSelectAssignment(uid, a)
    \/ GiLoadList
    \/ GiListBack
    \/ \E sid \in {"s1"} : GiOpen(sid)
    \/ GiLoadStudent
    \/ GiLoadSubmission
    \/ \E score \in GradeScores : \E st \in GradeStatuses : GiSubmit(score, st)
    \/ GiSaveUpdate
    \/ GiSaveInsert
    \/ GiBack
    \/ \E uid \in {"s1"} : \E id \in FreshSubmissionIds(MaxRows) :
          \E s \in StudentSubmitRows(uid, id) : InsertSubmission(uid, s)
    \/ \E uid \in {"ad"} : \E id \in 1..MaxRows :
          \E patch \in { [assignment_id |-> a] : a \in AssignmentIds } :
          UpdateSubmission(uid, id, patch)

SpecMove == InitGrade /\ [][NextMove]_vars

-----------------------------------------------------------------------------
(* Specification of the grades page over two rows: s1 submits to a1, s2 to  *)
(* a2, and the two instructors and the admin grade through the form. No    *)
(* row leaves the table, so the form finds the row of every student it      *)
(* opens and onSubmit takes its update branch.                              *)

NextFrame ==
    \/ \E uid \in {"t1", "t2", "ad"} : \E a \in AssignmentIds : GiSelectAssignment(uid, a)
    \/ GiLoadList
    \/ GiListBack
    \/ \E sid \in {"s1", "s2"} : GiOpen(sid)
    \/ GiLoadStudent
    \/ GiLoadSubmission
    \/ \E score \in GradeScores : \E st \in GradeStatuses : GiSubmit(score, st)
    \/ GiSaveUpdate
    \/ GiBack
    \/ \E uid \in {"s1", "s2"} : \E id \in FreshSubmissionIds(MaxKeyRows) :
          \E s \in StudentSubmitRows(uid, id) : InsertSubmission(uid, s)

SpecFrame == InitGrade /\ [][NextFrame]_vars

-----------------------------------------------------------------------------
(* The create dialog (CreateAssignmentQuizDialog) of the grades page        *)

\* gen_random_uuid(): an id no row of assignments holds
FreshAssignmentIds ==
    LET free == AssignmentIds \ { a.id : a \in assignments }
    IN  { i \in free : \A j \in free : i = "a1" \/ j # "a1" }

\* loadCourses: the courses the dialog offers, those of the instructor for a
\* teacher; courseId is '' (no course) until one is picked
DialogCourses(uid) ==
    { c.id : c \in { x \in courses : IsAdmin(uid) \/ x.instructor_id = uid } }
        \cup {NULL}

\* the values the maxScore input accepts (min 1, max 1000)
DialogMaxScores == {1, DefaultMaxScore, HighMaxScore}

\* mutant: assignmentData with the status published
DialogAssignmentData_Published(id, course_id, max_score) ==
    [Assignment(id, course_id, "published") EXCEPT !.max_score = max_score]

\* assignmentData of the dialog's onSubmit, with the id the database gives it
DialogAssignmentData(id, course_id, max_score) ==
    [Assignment(id, course_id, "draft") EXCEPT !.max_score = max_score]

\* onSubmit of the dialog: insert(assignmentData).select().single(); the
\* dialog reports what the database answered
DialogSubmit(uid, course_id, max_score) ==
    /\ MayOpenGradesPage(uid)
    /\ course_id \in DialogCourses(uid)
    /\ 1 <= max_score /\ max_score <= 1000
    /\ \E id \in FreshAssignmentIds :
          InsertAssignment(uid, DialogAssignmentData(id, course_id, max_score))

-----------------------------------------------------------------------------
(* Specification of the create dialog: instructors and the admin create     *)
(* assignments in the dialog, change their status and delete them; students *)
(* read the assignments, submit, and the progress view is read.             *)

InitCreate ==
    /\ assignments = {}
    /\ submissions = {}
    /\ last = NoRequest
    /\ gi = GiUnmounted
    /\ auth = AuthInitial(NULL)
    /\ page = PageInitial

NextCreate ==
    \/ \E uid \in {"t1", "ad"} : \E c \in CourseIds \cup {NULL} :
          \E ms \in DialogMaxScores : DialogSubmit(uid, c, ms)
    \/ \E uid \in {"t1", "ad"} : \E id \in AssignmentIds :
          \E patch \in { [status |-> st] : st \in AssignmentStatuses } :
              UpdateAssignment(uid, id, patch)
    \/ \E uid \in {"t1", "ad"} : \E id \in AssignmentIds : DeleteAssignment(uid, id)
    \/ \E uid \in {"s1", "s2"} : SelectAssignments(uid)
    \/ \E uid \in {"s1", "s2"} : \E id \in FreshSubmissionIds(MaxRows) :
          \E s \in StudentSubmitRows(uid, id) : InsertSubmission(uid, s)
    \/ \E uid \in {"t1", "ad"} : SelectStudentProgress(uid)

SpecCreate == InitCreate /\ [][NextCreate]_vars

-----------------------------------------------------------------------------
(* The auth provider (AuthContext.tsx), what AppContent renders from it,    *)
(* and the grades page's effect. A handler runs until its first await of a  *)
(* request; what follows the await is a step of its own, taken when the     *)
(* request is answered. An await of a value that is already there is        *)
(* followed at once.                                                        *)

\* the role of a fetched profile
RoleOf(profile) ==
    LET p == CHOOSE x \in profiles : x.id = profile IN p.role

\* AppContent: what the application shows for an auth state
AppContentView(a) ==
    IF a.loading THEN "loading"
    ELSE IF a.user = NULL \/ a.profile = NULL THEN "sign_in"
    ELSE IF RoleOf(a.profile) # "teacher" /\ RoleOf(a.profile) # "admin"
         THEN "access_denied"
    ELSE "grades_page"

PageRendered == AppContentView(auth) = "grades_page"

\* the grades page after the provider's state became a: React renders again,
\* a page that is no longer rendered unmounts (the calls it has in flight go
\* on), and no query is issued by the render itself
PageAfter(a) ==
    IF AppContentView(a) = "grades_page"
    THEN [page EXCEPT !.query = "none"]
    ELSE [page EXCEPT !.deps = <<>>, !.query = "none"]

\* fetchProfile calls in flight
FetchesInFlight(a) ==
    a.fetches[<<"t1", FALSE>>] + a.fetches[<<"t1", TRUE>>]
        + a.fetches[<<"s1", FALSE>>] + a.fetches[<<"s1", TRUE>>]

\* the bound of the model lets fetchProfile start another call
MayFetch(a) ==
    a.fetchingProfile \/ FetchesInFlight(a) < MaxInFlight

\* clearAuthState
clearAuthState(a) ==
    [a EXCEPT !.user = NULL, !.profile = NULL, !.session = NULL,
              !.fetchingProfile = FALSE]

\* handleAuthStateChange with a session: setSession, setUser and
\* fetchProfile(userId) up to its await. A fetch already in progress makes
\* fetchProfile return null at once: setProfile(null), setLoading(false)
SessionHandled(a, userId) ==
    IF a.fetchingProfile
    THEN [a EXCEPT !.session = userId, !.user = userId, !.profile = NULL,
                   !.loading = FALSE]
    ELSE [a EXCEPT !.session = userId, !.user = userId,
                   !.fetchingProfile = TRUE,
                   !.fetches[<<userId, FALSE>>] = @ + 1]

\* a step of the auth provider to state a after the handler named event
AuthStep(a, event) ==
    /\ auth' = [a EXCEPT !.event = event]
    /\ page' = PageAfter(a)
    /\ UNCHANGED <<assignments, submissions, last, gi>>

\* supabase.auth.getSession() answers: an error ends loading, a session or
\* none is handled as INITIAL_SESSION
AuthGetSession(failed) ==
    /\ auth.getSession
    /\ failed \/ auth.clientSession = NULL \/ MayFetch(auth)
    /\ LET a == [auth EXCEPT !.getSession = FALSE]
       IN  IF failed THEN AuthStep([a EXCEPT !.loading = FALSE], "getSession_error")
           ELSE IF a.clientSession = NULL
                THEN AuthStep([a EXCEPT !.loading = FALSE], "INITIAL_SESSION")
           ELSE AuthStep(SessionHandled(a, a.clientSession), "INITIAL_SESSION")

\* onAuthStateChange delivers INITIAL_SESSION to the new subscriber
AuthInitialSession ==
    /\ auth.subscribed
    /\ auth.clientSession = NULL \/ MayFetch(auth)
    /\ LET a == [auth EXCEPT !.subscribed = FALSE]
       IN  IF a.clientSession = NULL
           THEN AuthStep([a EXCEPT !.loading = FALSE], "INITIAL_SESSION")
           ELSE AuthStep(SessionHandled(a, a.clientSession), "INITIAL_SESSION")

\* onAuthStateChange delivers SIGNED_IN with the session of userId: a
\* sign-in, or the client announcing again the session it holds
AuthSignedIn(userId) ==
    /\ auth.clientSession \in {NULL, userId}
    /\ MayFetch(auth)
    /\ AuthStep(SessionHandled([auth EXCEPT !.clientSession = userId], userId),
                "SIGNED_IN")

\* onAuthStateChange delivers TOKEN_REFRESHED with the refreshed session
AuthTokenRefreshed ==
    /\ auth.clientSession # NULL
    /\ MayFetch(auth)
    /\ AuthStep(SessionHandled(auth, auth.clientSession), "TOKEN_REFRESHED")

\* onAuthStateChange delivers TOKEN_REFRESHED without a session:
\* redirectToLogin clears the state and the storage and schedules the reload
AuthTokenRefreshFailed ==
    /\ auth.clientSession # NULL
    /\ IF auth.redirecting
       THEN AuthStep(auth, "TOKEN_REFRESH_FAILED")
       ELSE AuthStep([clearAuthState(auth) EXCEPT !.redirecting = TRUE,
                                                 !.loading = FALSE,
                                                 !.clientSession = NULL,
                                                 !.reloading = TRUE],
                     "TOKEN_REFRESH_FAILED")

\* onAuthStateChange delivers SIGNED_OUT
AuthSignedOut ==
    /\ auth.clientSession # NULL
    /\ AuthStep([clearAuthState(auth) EXCEPT !.loading = FALSE,
                                             !.clientSession = NULL],
                "SIGNED_OUT")

\* a fetchProfile call is answered with the profile (data) or with an error
\* (null): the flag is reset and the caller goes on, handleAuthStateChange
\* with setProfile and setLoading(false), refreshProfile with setProfile
AuthFetchDone(userId, force, found) ==
    /\ auth.fetches[<<userId, force>>] > 0
    /\ AuthStep([auth EXCEPT !.fetches[<<userId, force>>] = @ - 1,
                             !.fetchingProfile = FALSE,
                             !.profile = IF found THEN userId ELSE NULL,
                             !.loading = IF force THEN @ ELSE FALSE],
                "fetch_done")

\* refreshProfile: fetchProfile(user.id, ..., force = true) up to its await
AuthRefreshProfile ==
    /\ auth.user # NULL
    /\ FetchesInFlight(auth) < MaxInFlight
    /\ AuthStep([auth EXCEPT !.fetchingProfile = TRUE,
                             !.fetches[<<auth.user, TRUE>>] = @ + 1],
                "refreshProfile")

\* signOut, called by the page's "Sign Out" button: clearAuthState, then the
\* await of supabase.auth.signOut
AuthSignOut ==
    /\ PageRendered
    /\ ~auth.signingOut
    /\ AuthStep([clearAuthState(auth) EXCEPT !.signingOut = TRUE], "signOut")

\* supabase.auth.signOut answered: the storage is cleared and the reload is
\* scheduled; the catch branch clears the auth state again
AuthSignOutDone(threw) ==
    /\ auth.signingOut
    /\ LET a == [auth EXCEPT !.signingOut = FALSE, !.reloading = TRUE,
                             !.clientSession = IF threw THEN @ ELSE NULL]
       IN  AuthStep(IF threw THEN clearAuthState(a) ELSE a, "signOut_done")

\* window.location.href = '/': the application starts again, its calls in
\* flight are gone
AuthReload ==
    /\ auth.reloading
    /\ auth' = AuthInitial(auth.clientSession)
    /\ page' = PageInitial
    /\ UNCHANGED <<assignments, submissions, last, gi>>

\* the page's useEffect on [user, profile, authLoading]: loadAssignments and
\* loadCourses unless auth is loading or user or profile is missing
PageEffect ==
    /\ PageRendered
    /\ page.deps # <<auth.user, auth.profile, auth.loading>>
    /\ page' = [page EXCEPT !.deps = <<auth.user, auth.profile, auth.loading>>,
                            !.query = IF auth.loading THEN "none"
                                      ELSE IF auth.user = NULL \/ auth.profile = NULL
                                           THEN "none"
                                      ELSE "assignment_stats"]
    /\ UNCHANGED <<assignments, submissions, last, gi, auth>>

\* onSubmit of the grading form, rendered by the page: the request that
\* saves the grade goes out and is awaited
PageSave ==
    /\ PageRendered
    /\ page.saves < MaxInFlight
    /\ page' = [page EXCEPT !.saves = @ + 1, !.query = "submissions"]
    /\ UNCHANGED <<assignments, submissions, last, gi, auth>>

\* the save is answered: an error shows the toast; otherwise
\* onGradeSubmitted() of the page runs loadAssignments(), whose user and
\* profile are those of the render that created it (non-null: the page
\* renders the form only with both)
PageSaveDone(failed) ==
    /\ page.saves > 0
    /\ page' = [page EXCEPT !.saves = @ - 1,
                            !.query = IF failed THEN "none" ELSE "assignment_stats"]
    /\ UNCHANGED <<assignments, submissions, last, gi, auth>>

-----------------------------------------------------------------------------
(* Specification of the auth provider: the application starts with or       *)
(* without a stored session, auth events arrive, profiles are fetched and   *)
(* refreshed, the user signs out, and the grades page loads and saves.      *)

InitAuth ==
    /\ assignments = PublishedAssignments
    /\ submissions = {}
    /\ last = NoRequest
    /\ gi = GiUnmounted
    /\ auth \in { AuthInitial(c) : c \in AuthUsers \cup {NULL} }
    /\ page = PageInitial

NextAuth ==
    \/ \E failed \in BOOLEAN : AuthGetSession(failed)
    \/ AuthInitialSession
    \/ \E userId \in AuthUsers : AuthSignedIn(userId)
    \/ AuthTokenRefreshed
    \/ AuthTokenRefreshFailed
    \/ AuthSignedOut
    \/ \E k \in AuthUsers \X BOOLEAN : \E found \in BOOLEAN :
          AuthFetchDone(k[1], k[2], found)
    \/ AuthRefreshProfile
    \/ AuthSignOut
    \/ \E threw \in BOOLEAN : AuthSignOutDone(threw)
    \/ AuthReload
    \/ PageEffect
    \/ PageSave
    \/ \E failed \in BOOLEAN : PageSaveDone(failed)

SpecAuth == InitAuth /\ [][NextAuth]_vars

-----------------------------------------------------------------------------
(* The summary cards of the student submission list *)

\* submission_status and score of a row of student_assignment_progress: no
\* submission (both NULL), a submission not graded yet, and a submission the
\* grading form saved as graded or as returned, with its score
ListCells ==
    { <<NULL, NoScore>> }
        \cup { <<st, NoScore>> : st \in {"pending", "submitted", "late"} }
        \cup { <<st, sc>> : st \in {"graded", "returned"},
                             sc \in { Score(0), Score(85), Score(100) } }

\* the answers of the list's query: one row for each student of a set
ListData ==
    UNION { { { [student_id |-> n, submission_status |-> f[n][1], score |-> f[n][2]] :
                  n \in S } : f \in [S -> ListCells] } : S \in SUBSET (1..MaxStudents) }

\* students.filter(...).reduce((sum, s) => sum + (s.score || 0), 0): a row
\* without a score has score null, which passes `!== undefined` and adds 0
RECURSIVE SumOfScores(_)
SumOfScores(students) ==
    IF students = {} THEN 0
    ELSE LET s == CHOOSE x \in students : TRUE
         IN  (IF s.score = NoScore THEN 0 ELSE CHOOSE n \in s.score : TRUE)
                 + SumOfScores(students \ {s})

submittedCount(students) ==
    Cardinality({ s \in students :
                    s.submission_status \in {"submitted", "graded", "late"} })

gradedCount(students) ==
    Cardinality({ s \in students : s.submission_status = "graded" })

pendingCount(students) ==
    Cardinality({ s \in students : s.submission_status \in {"submitted", "late"} })

\* averageScore: the quotient num / den, kept as a fraction
averageScore(students) ==
    IF gradedCount(students) > 0
    THEN [num |-> SumOfScores(students), den |-> gradedCount(students)]
    ELSE [num |-> 0, den |-> 1]

\* loadStudentSubmissions of the list is answered with data: setStudents(data).
\* The effect runs it when the list mounts and whenever the page hands it a
\* new assignment object
ListLoaded(data) ==
    /\ gi.phase \in {"load_list", "list"}
    /\ gi' = [gi EXCEPT !.phase = "list", !.students = data]
    /\ UNCHANGED <<assignments, submissions, last, auth, page>>

-----------------------------------------------------------------------------
(* Specification of the summary cards: instructor t1 has picked assignment  *)
(* a1 and the list loads, and loads again, any rows the view can return.    *)

InitSummary ==
    /\ assignments = PublishedAssignments
    /\ submissions = {}
    /\ last = NoRequest
    /\ gi = [GiUnmounted EXCEPT !.phase = "load_list", !.user = "t1",
                                !.assignment = "a1"]
    /\ auth = AuthInitial(NULL)
    /\ page = PageInitial

NextSummary ==
    \E data \in ListData : ListLoaded(data)

SpecSummary == InitSummary /\ [][NextSummary]_vars

-----------------------------------------------------------------------------
(* Vocabulary of the properties, stated on the tables themselves *)

IsAdminUser(u) ==
    \E p \in profiles : p.id = u /\ p.role = "admin"

CoursesOfAssignment(assignment_id) ==
    { a.course_id : a \in { x \in assignments : x.id = assignment_id } }

IsInstructorOfCourse(u, course_id) ==
    \E c \in courses : c.id = course_id /\ c.instructor_id = u

IsCourseInstructor(u, assignment_id) ==
    \E c \in CoursesOfAssignment(assignment_id) : IsInstructorOfCourse(u, c)

HasActiveEnrollment(u, course_id) ==
    \E e \in enrollments :
        e.user_id = u /\ e.course_id = course_id /\ e.status = "active"

IsPublished(assignment_id) ==
    \E a \in assignments : a.id = assignment_id /\ a.status = "published"

\* the caller may create row s: own row, active enrollment, published assignment
MayCreate(u, s) ==
    /\ s.user_id = u
    /\ IsPublished(s.assignment_id)
    /\ \E c \in CoursesOfAssignment(s.assignment_id) : HasActiveEnrollment(u, c)

\* the caller is the course instructor of the row's assignment or an admin
IsGrader(u, s) ==
    IsCourseInstructor(u, s.assignment_id) \/ IsAdminUser(u)

\* the caller owns the row and the row is still before grading
IsOwnerBeforeGrading(u, s) ==
    s.user_id = u /\ s.status \in PreGrading

SameKey(r1, r2) ==
    r1.assignment_id = r2.assignment_id /\ r1.user_id = r2.user_id

ScoreInRange(sc) ==
    sc = NoScore \/ (\A n \in sc : 0 <= n /\ n <= 100)

\* the rows of the table before the request that the request names
Targeted == { r \in submissions : r.id = last'.id }

Denied(res) == res \in {"no_rows", "rls_violation"}

-----------------------------------------------------------------------------
(* C1: the submissions table never holds two rows for one (assignment_id,  *)
(* user_id) pair; of two permitted creation attempts for the same pair the *)
(* first succeeds and the second fails with a uniqueness violation and     *)
(* leaves the table, and so the surviving row, as it was.                  *)
C1_OneRowPerPair ==
    [][ /\ \A r1 \in submissions' : \A r2 \in submissions' :
              SameKey(r1, r2) => r1 = r2
        /\ (last'.op = "insert_submission" /\ MayCreate(last'.caller, last'.arg))
              => IF \E r \in submissions : SameKey(r, last'.arg)
                 THEN last'.res = "unique_violation" /\ submissions' = submissions
                 ELSE last'.res = "ok" /\ submissions' = submissions \cup {last'.arg}
      ]_vars

\* a second attempt for a pair was refused and the first row is still there,
\* with the status the first attempt gave it
C1_Witness ==
    /\ last.op = "insert_submission"
    /\ last.res = "unique_violation"
    /\ \E r \in submissions :
          SameKey(r, last.arg) /\ r.status # last.arg.status /\ r.id # last.arg.id

-----------------------------------------------------------------------------
(* C2: every stored score is null or within 0..100; an insert or update    *)
(* that would store a score outside 0..100 changes nothing, and when the   *)
(* caller is allowed to write the row it is refused by the score check.    *)
MayUpdate(u, old, new) ==
    /\ IsGrader(u, old) \/ IsOwnerBeforeGrading(u, old)
    /\ IsGrader(u, new) \/ IsOwnerBeforeGrading(u, new)

C2_ScoreWithinRange ==
    [][ /\ \A r \in submissions' : ScoreInRange(r.score)
        /\ (last'.op = "insert_submission" /\ ~ScoreInRange(last'.arg.score))
              => /\ submissions' = submissions
                 /\ last'.res \in {"rls_violation", "check_violation"}
                 /\ MayCreate(last'.caller, last'.arg) => last'.res = "check_violation"
        /\ ( /\ last'.op = "update_submission"
             /\ "score" \in DOMAIN last'.arg
             /\ ~ScoreInRange(last'.arg.score) )
              => /\ submissions' = submissions
                 /\ last'.res \in {"no_rows", "rls_violation", "check_violation"}
                 /\ \A old \in Targeted :
                       MayUpdate(last'.caller, old, Patched(old, last'.arg))
                          => last'.res = "check_violation"
      ]_vars

\* an update to 150 was refused by the check and the row kept its score of 85
C2_Witness ==
    /\ last.op = "update_submission"
    /\ last.res = "check_violation"
    /\ last.arg.score = Score(150)
    /\ \E r \in submissions : r.id = last.id /\ r.score = Score(85)

-----------------------------------------------------------------------------
(* C3: an attempt to create a submission row is refused by the policy      *)
(* (error 42501) and creates nothing unless the row's user_id is the       *)
(* caller, the caller has an active enrollment in the assignment's course  *)
(* and the assignment is published when the insert runs.                   *)
C3_CreateNeedsEnrollmentAndPublished ==
    [][ /\ (last'.op = "insert_submission" /\ ~MayCreate(last'.caller, last'.arg))
              => last'.res = "rls_violation" /\ submissions' = submissions
        /\ \A r \in submissions' :
              r.id \notin SubmissionIdsIn(submissions)
                 => last'.op = "insert_submission" /\ MayCreate(last'.caller, r)
      ]_vars

\* a student whose enrollment in c1 is not active was refused on the
\* published assignment of c1
C3_Witness ==
    /\ last.op = "insert_submission"
    /\ last.caller = "s2"
    /\ last.arg.user_id = "s2"
    /\ last.arg.assignment_id = "a1"
    /\ IsPublished("a1")
    /\ last.res = "rls_violation"

-----------------------------------------------------------------------------
(* C4: the owning student's update of a row in pending, submitted or late  *)
(* that keeps the row theirs and before grading succeeds; once the row is  *)
(* graded or returned every update by the owner who is neither the course  *)
(* instructor nor an admin touches no row and changes nothing; and no      *)
(* update by such a caller leaves a row in graded or returned.             *)
NoOtherRowWithKey(new) ==
    \A r \in submissions : SameKey(r, new) => r.id = new.id

C4_StudentEditWindow ==
    [][ last'.op = "update_submission" =>
          \A old \in Targeted :
            LET new == Patched(old, last'.arg)
                u == last'.caller
            IN  /\ ( /\ IsOwnerBeforeGrading(u, old)
                     /\ IsOwnerBeforeGrading(u, new)
                     /\ NoOtherRowWithKey(new)
                     /\ submissions_foreign_keys(new) )
                      => last'.res = "ok" /\ new \in submissions'
                /\ ( /\ old.user_id = u
                     /\ old.status \in {"graded", "returned"}
                     /\ ~IsGrader(u, old) )
                      => Denied(last'.res) /\ submissions' = submissions
                /\ ( /\ old.user_id = u
                     /\ ~IsGrader(u, old)
                     /\ ~IsGrader(u, new)
                     /\ last'.res = "ok" )
                      => new.status \in PreGrading
      ]_vars

\* the owner's update of their graded row touched no row
C4_Witness ==
    /\ last.op = "update_submission"
    /\ last.caller = "s1"
    /\ last.res = "no_rows"
    /\ \E r \in submissions :
          r.id = last.id /\ r.user_id = "s1" /\ r.status = "graded"

-----------------------------------------------------------------------------
(* C5: the instructor of the course of a submission's assignment and any   *)
(* admin read, update and delete the submission whatever its status; a     *)
(* caller who instructs only other courses and is neither admin nor the    *)
(* row's owner does not read it and their update or delete touches no row. *)
InstructsOnlyOtherCourses(u, s) ==
    /\ \E c \in courses : c.instructor_id = u
    /\ ~IsCourseInstructor(u, s.assignment_id)
    /\ ~IsAdminUser(u)
    /\ s.user_id # u

C5_CourseInstructorAndAdminManage ==
    [][ LET u == last'.caller
        IN  /\ last'.op = "select_submissions" =>
                  \A r \in submissions :
                      /\ IsGrader(u, r) => r.id \in last'.seen
                      /\ InstructsOnlyOtherCourses(u, r) => r.id \notin last'.seen
            /\ last'.op = "update_submission" =>
                  \A old \in Targeted :
                      LET new == Patched(old, last'.arg)
                      IN  /\ IsGrader(u, old) => last'.res # "no_rows"
                          /\ ( /\ IsGrader(u, old)
                               /\ IsGrader(u, new)
                               /\ NoOtherRowWithKey(new)
                               /\ submissions_foreign_keys(new) )
                                => last'.res = "ok" /\ new \in submissions'
                          /\ InstructsOnlyOtherCourses(u, old)
                                => last'.res = "no_rows" /\ submissions' = submissions
            /\ last'.op = "delete_submission" =>
                  \A old \in Targeted :
                      /\ IsGrader(u, old)
                            => last'.res = "ok" /\ submissions' = submissions \ {old}
                      /\ InstructsOnlyOtherCourses(u, old)
                            => last'.res = "no_rows" /\ submissions' = submissions
      ]_vars

\* the instructor of course c2 tried to update a returned submission of
\* course c1 and touched no row
C5_Witness ==
    /\ last.op = "update_submission"
    /\ last.caller = "t2"
    /\ last.res = "no_rows"
    /\ \E r \in submissions :
          r.id = last.id /\ r.assignment_id = "a1" /\ r.status = "returned"

-----------------------------------------------------------------------------
(* C6: a submission row changes or disappears only through an update or    *)
(* delete of that row by its owner while it is pending, submitted or late, *)
(* by the instructor of its assignment's course, or by an admin; an update *)
(* or delete by any other caller touches no row and changes nothing.       *)
MayMutate(u, s) ==
    IsOwnerBeforeGrading(u, s) \/ IsGrader(u, s)

C6_OnlyOwnerInstructorAdminMutate ==
    [][ /\ \A r \in submissions :
              r \notin submissions'
                 => /\ last'.op \in {"update_submission", "delete_submission"}
                    /\ last'.id = r.id
                    /\ MayMutate(last'.caller, r)
        /\ last'.op \in {"update_submission", "delete_submission"} =>
              \A old \in Targeted :
                  ~MayMutate(last'.caller, old)
                     => last'.res = "no_rows" /\ submissions' = submissions
      ]_vars

\* another student tried to delete a pending submission and touched no row
C6_Witness ==
    /\ last.op = "delete_submission"
    /\ last.caller = "s2"
    /\ last.res = "no_rows"
    /\ \E r \in submissions :
          r.id = last.id /\ r.user_id = "s1" /\ r.status = "pending"

-----------------------------------------------------------------------------
(* C7: a read of the submissions table returns to the caller exactly the   *)
(* rows the caller owns, the rows of assignments of the courses the caller *)
(* instructs, and, to an admin, every row.                                 *)
MayReadSubmission(u, s) ==
    s.user_id = u \/ IsCourseInstructor(u, s.assignment_id) \/ IsAdminUser(u)

C7_ReadOwnerInstructorAdmin ==
    last.op = "select_submissions"
        => last.seen = { r.id : r \in { x \in submissions : MayReadSubmission(last.caller, x) } }

\* a student read the table while it held another student's row and got
\* nothing
C7_Witness ==
    /\ last.op = "select_submissions"
    /\ last.caller = "s2"
    /\ last.seen = {}
    /\ \E r \in submissions : r.user_id = "s1"

-----------------------------------------------------------------------------
(* C8: a read of the assignments table returns to the caller exactly the   *)
(* published assignments of the courses the caller is actively enrolled    *)
(* in, the assignments of the courses the caller instructs, and, to an     *)
(* admin, every assignment; a draft or archived assignment is not returned *)
(* to a caller who is only an enrolled student.                            *)
MayReadAssignment(u, a) ==
    \/ a.status = "published" /\ HasActiveEnrollment(u, a.course_id)
    \/ IsInstructorOfCourse(u, a.course_id)
    \/ IsAdminUser(u)

C8_AssignmentReadRule ==
    last.op = "select_assignments"
        => /\ last.seen =
                { a.id : a \in { x \in assignments : MayReadAssignment(last.caller, x) } }
           /\ \A a \in assignments :
                 ( /\ a.status \in {"draft", "archived"}
                   /\ ~IsInstructorOfCourse(last.caller, a.course_id)
                   /\ ~IsAdminUser(last.caller) )
                    => a.id \notin last.seen

\* the enrolled student read the table while it held a draft assignment of
\* their course and did not get it
C8_Witness ==
    /\ last.op = "select_assignments"
    /\ last.caller = "s1"
    /\ \E a \in assignments :
          a.course_id = "c1" /\ a.status = "draft" /\ a.id \notin last.seen

-----------------------------------------------------------------------------
(* C9: an assignment row appears, changes or disappears only through a     *)
(* request of the instructor of its course or of an admin; a create by any *)
(* other caller is refused, an update or delete by any other caller        *)
(* touches no row, and an update by an instructor that would leave the row *)
(* in a course the caller does not instruct is refused.                    *)
MayManageCourse(u, course_id) ==
    IsInstructorOfCourse(u, course_id) \/ IsAdminUser(u)

TargetedAssignments == { a \in assignments : a.id = last'.id }

C9_AssignmentWriteRule ==
    [][ LET u == last'.caller
        IN  /\ \A a \in assignments :
                  a \notin assignments'
                     => /\ last'.op \in {"update_assignment", "delete_assignment"}
                        /\ last'.id = a.id
                        /\ MayManageCourse(u, a.course_id)
            /\ \A a \in assignments' :
                  a \notin assignments
                     => /\ last'.op \in {"insert_assignment", "update_assignment"}
                        /\ last'.id = a.id
                        /\ MayManageCourse(u, a.course_id)
            /\ (last'.op = "insert_assignment" /\ ~MayManageCourse(u, last'.arg.course_id))
                  => last'.res = "rls_violation" /\ assignments' = assignments
            /\ last'.op \in {"update_assignment", "delete_assignment"} =>
                  \A old \in TargetedAssignments :
                      ~MayManageCourse(u, old.course_id)
                         => /\ last'.res = "no_rows"
                            /\ assignments' = assignments
                            /\ submissions' = submissions
            /\ last'.op = "update_assignment" =>
                  \A old \in TargetedAssignments :
                      ( /\ MayManageCourse(u, old.course_id)
                        /\ ~MayManageCourse(u, Patched(old, last'.arg).course_id) )
                         => last'.res = "rls_violation" /\ assignments' = assignments
      ]_vars

\* the instructor of c1 tried to move an assignment of c1 to course c2 and
\* was refused
C9_Witness ==
    /\ last.op = "update_assignment"
    /\ last.caller = "t1"
    /\ last.arg = [course_id |-> "c2"]
    /\ last.res = "rls_violation"
    /\ \E a \in assignments : a.id = last.id /\ a.course_id = "c1"


-----------------------------------------------------------------------------
(* C10: when the table holds no row for (assignment, student) and the course *)
(* instructor or an admin saves a grade in the grading form, the save        *)
(* creates the row of that student: user_id is the student, graded_by the    *)
(* grader, status and score those chosen in the form.                        *)

GradedPair(table) ==
    { r \in table : r.assignment_id = gi.assignment /\ r.user_id = gi.studentId }

C10_GradingFormCreatesRow ==
    [][ ( /\ gi.phase = "saving"
          /\ gi'.phase # "saving"
          /\ GradedPair(submissions) = {}
          /\ (IsCourseInstructor(gi.user, gi.assignment) \/ IsAdminUser(gi.user)) )
        => \E r \in GradedPair(submissions') :
              /\ r.graded_by = gi.user
              /\ r.status = gi.form.status
              /\ r.score = Score(gi.form.score) ]_vars

\* the course instructor saved a grade for a student without a row: the
\* insert was refused by row-level security and the form reports a failure
C10_Witness ==
    /\ gi.phase = "ready"
    /\ gi.toast = "Failed to save grade"
    /\ last.op = "insert_submission"
    /\ last.res = "rls_violation"
    /\ IsCourseInstructor(last.caller, last.arg.assignment_id)
    /\ last.arg.user_id = gi.studentId
    /\ \A r \in submissions :
          ~(r.assignment_id = last.arg.assignment_id /\ r.user_id = last.arg.user_id)


-----------------------------------------------------------------------------
(* C11: in every reachable state a submission whose status is pending,      *)
(* submitted or late has score, graded_by and graded_at NULL: the owning     *)
(* student's inserts and updates never set them.                             *)

IsStudentUser(u) ==
    \E p \in profiles : p.id = u /\ p.role = "student"

CarriesNoGrade(r) ==
    r.score = NoScore /\ r.graded_by = NULL /\ r.graded_at = NoTime

C11_UngradedRowsCarryNoGrade ==
    \A r \in submissions : r.status \in PreGrading => CarriesNoGrade(r)

\* the owning student has inserted a submitted row that carries a score
C11_Witness ==
    /\ last.op = "insert_submission"
    /\ last.res = "ok"
    /\ IsStudentUser(last.caller)
    /\ \E r \in submissions :
          /\ r.id = last.id
          /\ r.user_id = last.caller
          /\ r.status = "submitted"
          /\ r.score = Score(85)


-----------------------------------------------------------------------------
(* C12: a successful grading operation of the form writes score, feedback,  *)
(* status (graded or returned), graded_by = the grader and graded_at in one  *)
(* step: the row passes from its old values to all five new values, its      *)
(* other columns unchanged, and afterwards its status is graded or returned  *)
(* with score and graded_by non-null; on the grades page no other step       *)
(* changes a row that stays in the table.                                    *)

GradingSucceeds ==
    /\ gi.phase = "saving"
    /\ gi.submission # {}
    /\ gi'.phase # "saving"
    /\ last'.res = "ok"

CarriesTheGrade(new) ==
    /\ new.score = Score(gi.form.score)
    /\ new.feedback = gi.form.feedback
    /\ new.status = gi.form.status
    /\ new.graded_by = gi.user
    /\ new.graded_at = gi.form.graded_at

SameSubmittedWork(old, new) ==
    /\ new.id = old.id
    /\ new.assignment_id = old.assignment_id
    /\ new.user_id = old.user_id
    /\ new.submitted_at = old.submitted_at

C12_GradeWrittenAtomically ==
    [][ /\ GradingSucceeds =>
              \E old \in submissions : \E new \in submissions' :
                  /\ old.id = last'.id
                  /\ SameSubmittedWork(old, new)
                  /\ CarriesTheGrade(new)
                  /\ new.status \in {"graded", "returned"}
                  /\ new.score # NoScore
                  /\ new.graded_by # NULL
                  /\ new.graded_at # NoTime
                  /\ submissions' = (submissions \ {old}) \cup {new}
        /\ \A old \in submissions : \A new \in submissions' :
              (new.id = old.id /\ new # old) => GradingSucceeds ]_vars

\* the instructor of the course has graded a submitted row with 85
C12_Witness ==
    /\ last.op = "update_submission"
    /\ last.res = "ok"
    /\ gi.toast = "Grade saved"
    /\ \E r \in submissions :
          /\ r.id = last.id
          /\ IsCourseInstructor(last.caller, r.assignment_id)
          /\ r.status = "graded"
          /\ r.score = Score(85)
          /\ r.graded_by = last.caller
          /\ r.graded_at # NoTime
          /\ r.feedback # NULL


-----------------------------------------------------------------------------
(* C13: the grading transition rejects every score outside 0..100 whatever   *)
(* the assignment's max_score is: when the form saves a score above 100      *)
(* (which it accepts up to max_score) nothing is stored, the table is        *)
(* unchanged, and, the row the form loaded still being in the table (or the  *)
(* form having loaded none), the grader is shown the failure, not a saved    *)
(* grade, and stays on the form.                                             *)

SaveCompletes ==
    gi.phase = "saving" /\ gi'.phase # "saving"

LoadedRowStillThere ==
    \A id \in gi.submission :
        \E r \in submissions :
            r.id = id /\ r.assignment_id = gi.assignment /\ r.user_id = gi.studentId

-----------------------------------------------------------------------------
(* C14: an assignment's status only moves forward along draft -> published   *)
(* -> archived: no update takes an assignment from published or archived     *)
(* back to draft, nor from archived back to published.                       *)

StatusRank(status) ==
    IF status = "draft" THEN 1 ELSE IF status = "published" THEN 2 ELSE 3

C14_AssignmentStatusOnlyForward ==
    [][ last'.op = "update_assignment" =>
            \A old \in assignments : \A new \in assignments' :
                new.id = old.id => StatusRank(new.status) >= StatusRank(old.status) ]_vars

\* the instructor has set back to draft an assignment that students had
\* submitted to, hence one that had been published
C14_Witness ==
    /\ last.op = "update_assignment"
    /\ last.res = "ok"
    /\ last.arg = [status |-> "draft"]
    /\ IsInstructorOfCourse(last.caller, "c1")
    /\ \E a \in assignments :
          /\ a.id = last.id
          /\ a.status = "draft"
          /\ \E r \in submissions : r.assignment_id = a.id


-----------------------------------------------------------------------------
(* C15: returned is a terminal submission status and graded -> returned     *)
(* happens only by a grader's action: no request changes the status of a     *)
(* returned row, and a graded row stays graded unless the course instructor  *)
(* or an admin moves it to returned.                                         *)

C15_ReturnedIsTerminal ==
    [][ \A old \in submissions : \A new \in submissions' :
            new.id = old.id =>
                /\ old.status = "returned" => new.status = "returned"
                /\ (old.status = "graded" /\ new.status # "graded") =>
                      /\ new.status = "returned"
                      /\ IsGrader(last'.caller, old) ]_vars

\* a returned row is in the table and the instructor of its course is let
\* to set its status back to graded
C15_Witness ==
    \E r \in submissions :
        /\ r.status = "returned"
        /\ IsCourseInstructor("t1", r.assignment_id)
        /\ UpdateSubmissionResult("t1", r.id, [status |-> "graded"]) = "ok"


-----------------------------------------------------------------------------
(* C16: for a submission whose submitted_at is strictly after the due date   *)
(* of its assignment, the student progress view reports progress_status      *)
(* late before grading and graded once it is graded with a non-null score.   *)

DueDateOf(assignment_id) ==
    { a.due_date : a \in { x \in assignments : x.id = assignment_id } }

SubmittedPastDue(row) ==
    \E t \in row.submitted_at : \E d \in DueDateOf(row.assignment_id) : t > d

HasGrade(row) ==
    row.score # NoScore /\ row.submission_status \in {"graded", "returned"}

C16_LateThenGraded ==
    last.op = "select_student_progress" =>
        \A row \in last.seen :
            SubmittedPastDue(row) =>
                row.progress_status = IF HasGrade(row) THEN "graded" ELSE "late"

\* the view was read after a late submission was graded with 85: its row
\* still reports late
C16_Witness ==
    /\ last.op = "select_student_progress"
    /\ \E row \in last.seen :
          /\ SubmittedPastDue(row)
          /\ row.submission_status = "graded"
          /\ row.score = Score(85)
          /\ row.progress_status = "late"


-----------------------------------------------------------------------------
(* C18: the student progress view holds exactly one row for each pair of a   *)
(* student profile and a published assignment in whose course the student    *)
(* has an active enrollment, and no row for any other pair; each row's       *)
(* progress_status is not_submitted, late, graded or submitted, and it is    *)
(* not_submitted exactly when no submission row of the pair has a non-null   *)
(* submitted_at.                                                             *)

InProgressView(p, a) ==
    /\ p.role = "student"
    /\ HasActiveEnrollment(p.id, a.course_id)
    /\ a.status = "published"

HasSubmittedWork(student_id, assignment_id) ==
    \E r \in submissions :
        /\ r.user_id = student_id
        /\ r.assignment_id = assignment_id
        /\ r.submitted_at # NoTime

C18_OneProgressRowPerPair ==
    last.op = "select_student_progress" =>
        /\ \A p \in profiles : \A a \in assignments :
              Cardinality({ row \in last.seen :
                              row.student_id = p.id /\ row.assignment_id = a.id })
                  = IF InProgressView(p, a) THEN 1 ELSE 0
        /\ \A row \in last.seen :
              /\ \E p \in profiles : p.id = row.student_id
              /\ \E a \in assignments : a.id = row.assignment_id
              /\ row.progress_status \in {"not_submitted", "late", "graded", "submitted"}
              /\ row.progress_status = "not_submitted"
                    <=> ~HasSubmittedWork(row.student_id, row.assignment_id)

\* the view was read while a pending row without submitted_at reports
\* not_submitted and the submission of a student whose enrollment in the
\* course is dropped has no row
C18_Witness ==
    /\ last.op = "select_student_progress"
    /\ \E row \in last.seen :
          row.progress_status = "not_submitted" /\ row.submission_status = "pending"
    /\ \E r \in submissions :
          /\ r.user_id = "s2"
          /\ r.assignment_id = "a1"
          /\ \A row \in last.seen :
                ~(row.student_id = "s2" /\ row.assignment_id = "a1")


-----------------------------------------------------------------------------
(* C17: a student's read of their own submission does not reveal the score   *)
(* while the row's status is graded (saved, not released); the score is      *)
(* visible to the owning student only once the status is returned.           *)

C17_ScoreHiddenUntilReturned ==
    (last.op = "select_submission_rows" /\ IsStudentUser(last.caller)) =>
        \A row \in last.seen :
            (row.user_id = last.caller /\ row.status = "graded") => row.score = NoScore

\* the owning student has read their row after the grader saved 85 without
\* returning it: the row read carries the score
C17_Witness ==
    /\ last.op = "select_submission_rows"
    /\ IsStudentUser(last.caller)
    /\ \E row \in last.seen :
          /\ row.user_id = last.caller
          /\ row.status = "graded"
          /\ row.score = Score(85)
          /\ IsGrader(row.graded_by, row)


-----------------------------------------------------------------------------
(* C19: lateness is a strict comparison: a row of the progress view reports  *)
(* late exactly when submitted_at > due_date, and late_submissions of the    *)
(* assignment aggregate counts exactly the submissions with submitted_at >   *)
(* due_date; a submission with submitted_at equal to due_date, or NULL, is   *)
(* never late.                                                               *)

LateSubmissionsOf(assignment_id) ==
    { r \in submissions :
        /\ r.assignment_id = assignment_id
        /\ \E t \in r.submitted_at : \E d \in DueDateOf(assignment_id) : t > d }

C19_LateIsStrictlyAfterDue ==
    /\ last.op = "select_student_progress" =>
          \A row \in last.seen :
              /\ row.progress_status = "late" <=> SubmittedPastDue(row)
              /\ (row.submitted_at = NoTime
                    \/ row.submitted_at = { d : d \in DueDateOf(row.assignment_id) })
                      => row.progress_status # "late"
    /\ last.op = "select_assignment_stats" =>
          \A row \in last.seen :
              row.late_submissions = Cardinality(LateSubmissionsOf(row.id))

\* the progress view was read while one row was submitted exactly at the due
\* date and reports submitted, and another was submitted after it and
\* reports late
C19_Witness ==
    /\ last.op = "select_student_progress"
    /\ \E row \in last.seen :
          /\ row.submitted_at = { d : d \in DueDateOf(row.assignment_id) }
          /\ row.submitted_at # NoTime
          /\ row.progress_status = "submitted"
    /\ \E row \in last.seen :
          SubmittedPastDue(row) /\ row.progress_status = "late"

-----------------------------------------------------------------------------
(* C20: the assignment aggregate view is a function of the current tables:   *)
(* a read that follows a read returns the same rows, every read holds one    *)
(* row per assignment with total_submissions = the assignment's submission   *)
(* rows, graded_submissions = those in graded or returned, and               *)
(* pending_submissions = those in submitted or late, as the tables are at    *)
(* the read, and graded_submissions + pending_submissions <=                 *)
(* total_submissions.                                                        *)

RowsOfAssignment(assignment_id) ==
    { r \in submissions : r.assignment_id = assignment_id }

StatsReadIsCurrent ==
    last.op = "select_assignment_stats" =>
        /\ \A a \in assignments :
              Cardinality({ row \in last.seen : row.id = a.id }) = 1
        /\ \A row \in last.seen :
              /\ \E a \in assignments : a.id = row.id /\ a.status = row.status
              /\ row.total_submissions = Cardinality(RowsOfAssignment(row.id))
              /\ row.graded_submissions =
                    Cardinality({ r \in RowsOfAssignment(row.id) :
                                    r.status = "graded" \/ r.status = "returned" })
              /\ row.pending_submissions =
                    Cardinality({ r \in RowsOfAssignment(row.id) :
                                    r.status = "submitted" \/ r.status = "late" })
              /\ row.graded_submissions + row.pending_submissions
                    <= row.total_submissions

C20_StatsAreAFunctionOfTheTables ==
    [][ /\ StatsReadIsCurrent'
        /\ (last.op = "select_assignment_stats" /\ last'.op = "select_assignment_stats")
              => last'.seen = last.seen ]_vars

\* the aggregate was read while an assignment had two submissions, one of
\* them graded and the other neither graded nor pending
C20_Witness ==
    /\ last.op = "select_assignment_stats"
    /\ \E row \in last.seen :
          /\ row.total_submissions = 2
          /\ row.graded_submissions = 1
          /\ row.pending_submissions = 0


-----------------------------------------------------------------------------
(* C21: deleting an assignment deletes all of its submissions in the same   *)
(* operation, and only those: in every reachable state the assignment_id of  *)
(* every submission row is the id of an assignment row.                      *)

RefersToAssignment(r) ==
    \E a \in assignments : a.id = r.assignment_id

AssignmentDeleted ==
    /\ last'.op = "delete_assignment"
    /\ last'.res = "ok"
    /\ assignments' # assignments

C21_DeleteCascadesToSubmissions ==
    /\ [](\A r \in submissions : RefersToAssignment(r))
    /\ [][ AssignmentDeleted =>
              submissions' = { r \in submissions : r.assignment_id # last'.id } ]_vars

\* assignment a1 was deleted while the table held a row of a1 (the row of id
\* 1, the first id given out) and a row of a2: the row of a2 is what is left
C21_Witness ==
    /\ last.op = "delete_assignment"
    /\ last.res = "ok"
    /\ last.id = "a1"
    /\ ~(\E a \in assignments : a.id = "a1")
    /\ \E r \in submissions : r.id = 2 /\ r.assignment_id = "a2"
    /\ ~(\E r \in submissions : r.id = 1)


-----------------------------------------------------------------------------
(* C22: a grading mutation of the form that a policy or a constraint refuses *)
(* has no partial effect and is never reported as success: the table is      *)
(* unchanged, the form shows no success notification, the grader stays on    *)
(* the grading screen (onGradeSubmitted is not invoked) and the form is no   *)
(* longer submitting.                                                        *)

\* the database applied nothing although the statement named a row of the
\* table (a USING clause skipped it) or answered with an error
GradingRefused ==
    /\ gi.phase = "saving"
    /\ gi'.phase # "saving"
    /\ \/ last'.res \in {"rls_violation", "check_violation",
                         "unique_violation", "fk_violation"}
       \/ /\ last'.res = "no_rows"
          /\ \E r \in submissions : r.id = last'.id

C22_RefusedGradingNotReportedAsSuccess ==
    [][ GradingRefused =>
            /\ submissions' = submissions
            /\ gi'.toast # "Grade saved"
            /\ gi'.phase = "ready" ]_vars

\* the instructor of c1 saved a grade for a row that sits, by now, under an
\* assignment of another course: the update policy skipped the row, the row
\* carries no grade, and the page shows "Grade saved" and the list again
C22_Witness ==
    /\ last.op = "update_submission"
    /\ last.res = "no_rows"
    /\ gi.toast = "Grade saved"
    /\ gi.phase = "load_list"
    /\ \E r \in submissions :
          /\ r.id = last.id
          /\ ~IsGrader(last.caller, r)
          /\ r.score = NoScore
          /\ r.graded_by = NULL


-----------------------------------------------------------------------------
(* C23: grading one submission changes only that submission row: a grading   *)
(* operation of the form leaves every other submission row and every         *)
(* assignment row unchanged, and two grading operations on two different     *)
(* rows commute: in either order they leave the same table.                  *)

OtherRows(table, id) == { r \in table : r.id # id }

\* the values a grader can save for a row
GradeDataOf(uid) ==
    { [score |-> Score(sc), feedback |-> fb, status |-> st, graded_by |-> uid,
       graded_at |-> Time(now)] :
        sc \in GradeScores, fb \in GradeFeedbacks, st \in GradeStatuses,
        now \in GradeTimes }

\* the form's grading operation of this step and the grading of row id2 by
\* g2 leave the same table in either order
CommutesWithGradingOf(g2, id2, d2) ==
    UpdatedSubmissionsIn(submissions', g2, id2, d2)
        = UpdatedSubmissionsIn(UpdatedSubmissionsIn(submissions, g2, id2, d2),
                               gi.user, last'.id, last'.arg)

C23_GradingTouchesOneRow ==
    [][ (gi.phase = "saving" /\ gi'.phase # "saving") =>
          /\ OtherRows(submissions', last'.id) = OtherRows(submissions, last'.id)
          /\ assignments' = assignments
          /\ \A r2 \in OtherRows(submissions, last'.id) :
                \A g2 \in {"t1", "t2", "ad"} : \A d2 \in GradeDataOf(g2) :
                    CommutesWithGradingOf(g2, r2.id, d2) ]_vars

\* t2 has graded the row of a2 while the table holds the row of a1 that t1
\* graded before: each row carries its own grade
C23_Witness ==
    /\ last.op = "update_submission"
    /\ last.res = "ok"
    /\ gi.toast = "Grade saved"
    /\ \E r1 \in submissions : \E r2 \in submissions :
          /\ r1.id # r2.id
          /\ r2.id = last.id
          /\ r1.graded_by = "t1" /\ r1.score = Score(85)
          /\ r2.graded_by = "t2" /\ r2.score = Score(0)


-----------------------------------------------------------------------------
(* C24: the rows of the views assignment_stats and                          *)
(* student_assignment_progress are subject to the row-level policies of the  *)
(* base tables: what a caller reads through a view derives only from         *)
(* assignment rows and submission rows the caller may read directly.         *)

ReadableAssignmentId(u, assignment_id) ==
    \E a \in assignments : a.id = assignment_id /\ MayReadAssignment(u, a)

StatsRowReadable(u, row) ==
    /\ ReadableAssignmentId(u, row.id)
    /\ \A r \in submissions : r.assignment_id = row.id => MayReadSubmission(u, r)

ProgressRowReadable(u, row) ==
    /\ ReadableAssignmentId(u, row.assignment_id)
    /\ \A r \in submissions :
          (r.assignment_id = row.assignment_id /\ r.user_id = row.student_id)
              => MayReadSubmission(u, r)

C24_ViewsUnderRowPolicies ==
    /\ last.op = "select_assignment_stats"
          => \A row \in last.seen : StatsRowReadable(last.caller, row)
    /\ last.op = "select_student_progress"
          => \A row \in last.seen : ProgressRowReadable(last.caller, row)

\* the instructor of c1 read the progress view and obtained the score of a
\* submission to an assignment of c2, a row the submissions policies hide
\* from this caller
C24_Witness ==
    /\ last.op = "select_student_progress"
    /\ \E row \in last.seen : \E r \in submissions :
          /\ r.assignment_id = row.assignment_id
          /\ r.user_id = row.student_id
          /\ row.score = Score(85)
          /\ r.score = row.score
          /\ ~SubmissionVisible(last.caller, r)
          /\ ~ReadableAssignmentId(last.caller, row.assignment_id)


-----------------------------------------------------------------------------
(* C25: every assignment created through the create dialog is stored with   *)
(* status draft, whatever the dialog's inputs are; while it is a draft no    *)
(* student reads it and the student progress view has no row of it, and      *)
(* only an update of the assignment's status ends that.                      *)

CreatedByDialog(a) ==
    /\ last'.op = "insert_assignment"
    /\ last'.res = "ok"
    /\ a.id = last'.id
    /\ a \in assignments'
    /\ a \notin assignments

\* no student may read the assignment, no student has read it in this state
\* and the progress view has no row of it
HiddenFromStudents(a) ==
    /\ \A p \in profiles : p.role = "student" => ~MayReadAssignment(p.id, a)
    /\ (last.op = "select_assignments" /\ IsStudentUser(last.caller))
          => a.id \notin last.seen
    /\ \A row \in student_assignment_progress : row.assignment_id # a.id
    /\ last.op = "select_student_progress"
          => \A row \in last.seen : row.assignment_id # a.id

C25_DialogCreatesDrafts ==
    /\ [][ \A a \in assignments' : CreatedByDialog(a) => a.status = "draft" ]_vars
    /\ [](\A a \in assignments : a.status = "draft" => HiddenFromStudents(a))
    /\ [][ \A a \in assignments : \A b \in assignments' :
              (a.id = b.id /\ a.status = "draft" /\ b.status # "draft")
                  => last'.op = "update_assignment" ]_vars

\* the instructor of c1 created an assignment of c1 with max_score 150 in the
\* dialog: it is stored as a draft, and s1, actively enrolled in c1, may not
\* read it
C25_Witness ==
    /\ last.op = "insert_assignment"
    /\ last.res = "ok"
    /\ last.caller = "t1"
    /\ \E a \in assignments :
          /\ a.id = last.id
          /\ a.status = "draft"
          /\ a.max_score = HighMaxScore
          /\ HasActiveEnrollment("s1", a.course_id)
          /\ ~AssignmentVisible("s1", a)


-----------------------------------------------------------------------------
(* C26: the grades page is rendered only when auth is not loading, user and  *)
(* profile are both there and the profile's role is teacher or admin; in     *)
(* every other state the page is not rendered and none of its data queries   *)
(* is issued.                                                                *)

IsTeacherOrAdmin(profile) ==
    \E p \in profiles : p.id = profile /\ p.role \in {"teacher", "admin"}

GradesPageAllowed ==
    /\ ~auth.loading
    /\ auth.user # NULL
    /\ auth.profile # NULL
    /\ IsTeacherOrAdmin(auth.profile)

\* a data query of the grades page went out in the step into this state
PageQueryIssued ==
    page.query = "assignment_stats"

C26_GradesPageGated ==
    /\ PageRendered => GradesPageAllowed
    /\ PageQueryIssued => GradesPageAllowed

\* a grade was saved from the rendered page, SIGNED_OUT arrived before the
\* answer, and the answer made the page load its assignments although no
\* user is signed in
C26_Witness ==
    /\ PageQueryIssued
    /\ auth.user = NULL
    /\ auth.profile = NULL
    /\ auth.event = "SIGNED_OUT"
    /\ ~auth.reloading
    /\ ~PageRendered


-----------------------------------------------------------------------------
(* C27: the fetchingProfile guard prevents simultaneous profile fetches: at  *)
(* any time at most one fetchProfile call without force is in flight,        *)
(* whatever the order of auth events, refreshProfile calls and answers.      *)

UnforcedFetchesInFlight ==
    auth.fetches[<<"t1", FALSE>>] + auth.fetches[<<"s1", FALSE>>]

C27_OneUnforcedFetchAtATime ==
    UnforcedFetchesInFlight <= 1

\* two fetchProfile calls without force are in flight, both started by auth
\* events and neither by refreshProfile
C27_Witness ==
    /\ UnforcedFetchesInFlight = 2
    /\ auth.fetches[<<"t1", TRUE>>] + auth.fetches[<<"s1", TRUE>>] = 0
    /\ auth.event \in {"SIGNED_IN", "TOKEN_REFRESHED", "INITIAL_SESSION"}
    /\ ~auth.reloading


-----------------------------------------------------------------------------
(* C28: once a SIGNED_OUT event or a signOut call has cleared the auth       *)
(* state, user, profile and session are null and stay null until the next    *)
(* event that carries a session; in every reachable state a null user means  *)
(* a null profile, also when a profile fetch that began before the sign-out  *)
(* is answered after it.                                                     *)

SignedOutState(a) ==
    a.user = NULL /\ a.profile = NULL /\ a.session = NULL

SessionEvents == {"SIGNED_IN", "TOKEN_REFRESHED", "INITIAL_SESSION"}

C28_SignedOutStaysCleared ==
    /\ [](auth.user = NULL => auth.profile = NULL)
    /\ [][ (SignedOutState(auth) /\ ~SignedOutState(auth'))
              => (auth'.event \in SessionEvents /\ auth'.session # NULL) ]_vars

\* SIGNED_OUT cleared the state, then the answer of a profile fetch that an
\* earlier event had started set the profile: no user, no session, a profile
C28_Witness ==
    /\ auth.event = "fetch_done"
    /\ auth.user = NULL
    /\ auth.session = NULL
    /\ auth.profile # NULL
    /\ auth.clientSession = NULL
    /\ ~auth.reloading


-----------------------------------------------------------------------------
(* C29: an auth event that carries a session (SIGNED_IN, TOKEN_REFRESHED or  *)
(* INITIAL_SESSION), handled while another profile fetch is in progress,     *)
(* does not replace the current profile with null and does not end loading   *)
(* with a user and no profile because its own fetch was skipped.             *)

\* this step handles an event with a session while a fetch is in progress
SessionEventDuringFetch ==
    /\ auth.fetchingProfile
    /\ auth' # auth
    /\ auth'.event \in SessionEvents
    /\ auth'.session # NULL

C29_EventDuringFetchKeepsProfile ==
    [][ SessionEventDuringFetch =>
            /\ auth.profile # NULL => auth'.profile # NULL
            /\ ~(~auth'.loading /\ auth'.user # NULL /\ auth'.profile = NULL) ]_vars

\* TOKEN_REFRESHED arrived while a fetch was in progress: its fetch was
\* skipped, the profile is null and loading is over, with a user
C29_Witness ==
    /\ auth.event = "TOKEN_REFRESHED"
    /\ auth.fetchingProfile
    /\ FetchesInFlight(auth) = 1
    /\ auth.user # NULL
    /\ auth.profile = NULL
    /\ ~auth.loading
    /\ ~auth.reloading

-----------------------------------------------------------------------------
(* C30: the summary of the student submission list agrees with the loaded    *)
(* rows: submittedCount = gradedCount + pendingCount, at most the number of  *)
(* students, and averageScore is the mean of the scores of the scored rows   *)
(* and lies between 0 and 100, rows with status returned included.           *)

ScoredRows(students) ==
    { s \in students : s.score # NoScore }

\* num / den is the mean of the scores of the scored rows
IsMeanOfScored(avg, students) ==
    ScoredRows(students) # {} =>
        avg.num * Cardinality(ScoredRows(students))
            = SumOfScores(ScoredRows(students)) * avg.den

CountsAgree(students) ==
    /\ submittedCount(students) = gradedCount(students) + pendingCount(students)
    /\ submittedCount(students) <= Cardinality(students)

C30_SummaryAgreesWithRows ==
    gi.phase = "list" =>
        /\ CountsAgree(gi.students)
        /\ IsMeanOfScored(averageScore(gi.students), gi.students)
        /\ averageScore(gi.students).num >= 0
        /\ averageScore(gi.students).num <= 100 * averageScore(gi.students).den

\* the list shows one graded and one returned submission, each with score
\* 100, and the average card shows 200
C30_Witness ==
    /\ gi.phase = "list"
    /\ gradedCount(gi.students) = 1
    /\ \E s \in gi.students : s.submission_status = "returned" /\ s.score = Score(100)
    /\ averageScore(gi.students) = [num |-> 200, den |-> 1]

=============================================================================
